---- MODULE Spec2Model ----
(***************************************************************************)
(* Discrete-time CPU / I/O scheduler simulator (Assignments/P02).          *)
(*                                                                         *)
(* The model follows pkg/scheduler.py: one action per public operation     *)
(* (add_process, step, and the positions of the run() loop).  The classes  *)
(* Clock, Process, CPU and IODevice are imported by scheduler.py from      *)
(* pkg.clock, pkg.process, pkg.cpu and pkg.ioDevice; their behaviour is    *)
(* taken from sections 3, 4.1, 4.2 and 4.3 of the specification.           *)
(*                                                                         *)
(* Processes are identified by their pid 1, 2, ... in the order in which   *)
(* they were handed to add_process.  CPUs and I/O devices are indexed      *)
(* 0 .. n-1 as in the source (cid, did).                                   *)
(***************************************************************************)
EXTENDS Integers, Sequences, FiniteSets, TLC

VARIABLES
    algorithm,          \* Scheduler.algorithm
    num_cpus,           \* len(Scheduler.cpus)
    num_ios,            \* len(Scheduler.io_devices)
    clock,              \* Clock.now()
    procs,              \* pid -> Process fields (arrival_time, priority, quantum,
                        \*        remaining_quantum, bursts, cursor)
    ready_queue,        \* Scheduler.ready_queue   (sequence of pids)
    wait_queue,         \* Scheduler.wait_queue    (sequence of pids)
    cpus,               \* cid -> pid held by CPU cid, or None
    io_devices,         \* did -> pid held by device did, or None
    finished,           \* Scheduler.finished      (sequence of pids)
    future_processes,   \* Scheduler.future_processes (sequence of pids)
    events,             \* the records appended to Scheduler.events by the last operation
    obs,                \* observation of the last operation and of each process's history
    driver,             \* position of the caller: "setup", "run" (inside run()), "returned"
    main,               \* main.py: its position, the workload file, the loaded processes
    generator,          \* gen_jobs/generate_jobs.py: the state of generate_process
    fragment            \* schedulers/*.py: the queues of a scheduling fragment

vars == <<algorithm, num_cpus, num_ios, clock, procs, ready_queue, wait_queue,
          cpus, io_devices, finished, future_processes, events, obs, driver,
          main, generator, fragment>>

\* the programs beside the scheduler
others == <<main, generator, fragment>>

----------------------------------------------------------------------------
(* Bounds of the model *)

MaxProcs == 3       \* number of processes handed to add_process
MaxCpus == 2        \* num_cpus ranges over 1 .. MaxCpus
MaxIos == 1         \* num_ios ranges over 1 .. MaxIos
MaxArrival == 1     \* arrival_time ranges over 0 .. MaxArrival
MaxPriority == 2    \* priority ranges over 1 .. MaxPriority
MaxQuantum == 2     \* quantum ranges over 1 .. MaxQuantum
MaxBurstLen == 2    \* length of a single CPU burst ranges over 1 .. MaxBurstLen
MaxClock == 12      \* step() is not called any more once the clock shows MaxClock
MaxDevices == 2     \* num_ios ranges over 1 .. MaxDevices where the wait queue is studied

(* Program constants *)

None == 0           \* Python None in a slot that holds a pid
Infinity == 1000    \* float('inf'): larger than every burst length

Algorithms == {"FCFS", "SJF", "SRTF", "Priority", "PriorityPreemptive", "RR"}

----------------------------------------------------------------------------
(* Process (pkg.process) *)

Cpu(n) == [kind |-> "cpu", n |-> n]
Io(n) == [kind |-> "io", n |-> n]

\* Process.__init__: the cursor is on the first burst, a full quantum is left
NewProcess(arrival, prio, q, bursts) ==
    [arrival_time |-> arrival, priority |-> prio, quantum |-> q,
     remaining_quantum |-> q, bursts |-> bursts, cursor |-> 1]

\* Process.current_burst(): the burst under the cursor, None past the end
HasCurrentBurst(P) == P.cursor <= Len(P.bursts)
current_burst(P) == P.bursts[P.cursor]
CurrentIs(P, kind) == HasCurrentBurst(P) /\ current_burst(P).kind = kind

RECURSIVE SumCpuFrom(_, _)
SumCpuFrom(bursts, i) ==
    IF i > Len(bursts) THEN 0
    ELSE (IF bursts[i].kind = "cpu" THEN bursts[i].n ELSE 0) + SumCpuFrom(bursts, i + 1)

\* Process.remaining_burst_time(): sum of the CPU bursts from the cursor onward
remaining_burst_time(P) == SumCpuFrom(P.bursts, P.cursor)

\* the unit's tick applied to the process: one unit off the current burst,
\* and the cursor advances when the burst reaches zero
TickBurst(P) ==
    LET left == current_burst(P).n - 1
        Q == [P EXCEPT !.bursts[P.cursor].n = left]
    IN  IF left = 0 THEN [Q EXCEPT !.cursor = @ + 1] ELSE Q

\* CPU.tick() / IODevice.tick() act only on a current burst of their own kind
CpuTickActs(P) == CurrentIs(P, "cpu")
IoTickActs(P) == CurrentIs(P, "io")
BurstCompletes(P) == current_burst(P).n - 1 = 0

----------------------------------------------------------------------------
(* Sequence helpers *)

InsertAt(seq, pos, x) ==      \* list.insert(pos, x), pos counted from 0
    SubSeq(seq, 1, pos) \o <<x>> \o SubSeq(seq, pos + 1, Len(seq))

RemoveAt(seq, i) ==           \* the sequence without its i-th element (from 1)
    SubSeq(seq, 1, i - 1) \o SubSeq(seq, i + 1, Len(seq))

Range(seq) == {seq[i] : i \in DOMAIN seq}

IndexOf(seq, x) == CHOOSE i \in DOMAIN seq : seq[i] = x /\ \A j \in 1..(i - 1) : seq[j] # x

----------------------------------------------------------------------------
(* Ready-queue discipline: _insert_into_ready_queue, _select_process_for_cpu *)

SortedPolicies == {"FCFS", "SJF", "SRTF", "Priority", "PriorityPreemptive"}
ScanPolicies == {"SJF", "SRTF", "Priority", "PriorityPreemptive"}

\* the key the policy orders the ready queue by
PolicyKey(alg, P) ==
    IF alg = "FCFS" THEN P.arrival_time
    ELSE IF alg = "SJF" THEN (IF CurrentIs(P, "cpu") THEN current_burst(P).n ELSE Infinity)
    ELSE IF alg = "SRTF" THEN remaining_burst_time(P)
    ELSE P.priority

\* a variant of the loop that also stops at an equal key
RECURSIVE ScanPosAtTie(_, _, _, _, _)
ScanPosAtTie(alg, pr, rq, p, pos) ==
    IF pos >= Len(rq) THEN pos
    ELSE IF PolicyKey(alg, pr[p]) <= PolicyKey(alg, pr[rq[pos + 1]]) THEN pos
    ELSE ScanPosAtTie(alg, pr, rq, p, pos + 1)

\* the loop "for p in ready_queue: if key(process) < key(p): break; pos += 1"
RECURSIVE ScanPos(_, _, _, _, _)
ScanPos(alg, pr, rq, p, pos) ==
    IF pos >= Len(rq) THEN pos
    ELSE IF PolicyKey(alg, pr[p]) < PolicyKey(alg, pr[rq[pos + 1]]) THEN pos
    ELSE ScanPos(alg, pr, rq, p, pos + 1)

\* a variant that appends under every policy
InsertPosAppend(alg, pr, rq, p) == Len(rq)

InsertPos(alg, pr, rq, p) ==
    IF alg \in SortedPolicies THEN ScanPos(alg, pr, rq, p, 0) ELSE Len(rq)

insert_into_ready_queue(alg, pr, rq, p) == InsertAt(rq, InsertPos(alg, pr, rq, p), p)

\* a variant that takes the element at the far end of the queue
FirstMinIndexLast(alg, pr, rq) == Len(rq)

\* min(ready_queue, key=...): the first element whose key is minimal
FirstMinIndex(alg, pr, rq) ==
    CHOOSE i \in DOMAIN rq :
        /\ \A j \in DOMAIN rq : PolicyKey(alg, pr[rq[i]]) <= PolicyKey(alg, pr[rq[j]])
        /\ \A j \in 1..(i - 1) : PolicyKey(alg, pr[rq[j]]) > PolicyKey(alg, pr[rq[i]])

\* index (from 1) of the process _select_process_for_cpu removes and returns
SelectIndex(alg, pr, rq) ==
    IF alg \in ScanPolicies THEN FirstMinIndex(alg, pr, rq) ELSE 1

----------------------------------------------------------------------------
(* The scheduler state threaded through one operation.  The fields are the *)
(* Scheduler's attributes; ticks, streak, stamp, nstamp, checks and assigns *)
(* observe what the operation did and are read by no operation, and so do  *)
(* wstamp, nwait (entries into the wait queue), finish_time (the time of a *)
(* process's finished event), order (the processes in the order they were  *)
(* placed on a CPU) and trace (the CPUs' holders at the end of each step), *)
(* io_trace (the I/O devices' holders at the end of each step).            *)

Here ==
    [now |-> clock, procs |-> procs, ready_queue |-> ready_queue,
     wait_queue |-> wait_queue, cpus |-> cpus, io_devices |-> io_devices,
     finished |-> finished, future_processes |-> future_processes,
     events |-> <<>>,
     assigned |-> obs.assigned,
     ticks |-> obs.ticks, streak |-> obs.streak, stamp |-> obs.stamp,
     nstamp |-> obs.nstamp, checks |-> <<>>, assigns |-> <<>>, selects |-> <<>>,
     wstamp |-> obs.wstamp, nwait |-> obs.nwait, finish_time |-> obs.finish_time,
     order |-> obs.order, trace |-> obs.trace, io_trace |-> obs.io_trace]

CpuName(c) == <<"CPU", c>>
IoName(d) == <<"IO", d>>
NoDevice == <<>>              \* device=None

\* Scheduler._record: the structured record with its four snapshot arrays
Record(s, type, p, dev) ==
    [s EXCEPT !.events = Append(@,
        [time |-> s.now, event_type |-> type, process |-> p, device |-> dev,
         ready_queue |-> s.ready_queue, wait_queue |-> s.wait_queue,
         cpus |-> s.cpus, ios |-> s.io_devices])]

\* self._insert_into_ready_queue(p); stamp[p] numbers the insertions
Enqueue(s, p) ==
    [s EXCEPT !.ready_queue = insert_into_ready_queue(algorithm, s.procs, @, p),
              !.stamp[p] = s.nstamp + 1,
              !.nstamp = @ + 1]

\* CPU.assign(p): the unit holds p.  The observation keeps what was true
\* at the call: the unit's holder, p's remaining_quantum, where else p was,
\* the queue p was taken from as it is left, the processes' fields, the
\* insertion numbers, and how many events the step had recorded.
HeldSomewhere(s, p) ==
    \/ p \in Range(s.ready_queue) \/ p \in Range(s.wait_queue)
    \/ p \in Range(s.finished) \/ p \in Range(s.future_processes)
    \/ \E c \in DOMAIN s.cpus : s.cpus[c] = p
    \/ \E d \in DOMAIN s.io_devices : s.io_devices[d] = p

AssignCpu(s, c, p, via) ==
    [s EXCEPT !.assigns = Append(@,
                  [unit |-> "CPU", id |-> c, process |-> p, via |-> via,
                   holder |-> s.cpus[c], elsewhere |-> HeldSomewhere(s, p),
                   remaining_quantum |-> s.procs[p].remaining_quantum,
                   quantum |-> s.procs[p].quantum,
                   left |-> s.ready_queue, procs |-> s.procs,
                   stamp |-> s.stamp, nevents |-> Len(s.events)]),
              !.cpus[c] = p,
              !.streak[p] = 0,
              !.order = Append(@, p)]

AssignIo(s, d, p) ==
    [s EXCEPT !.assigns = Append(@,
                  [unit |-> "IO", id |-> d, process |-> p, via |-> "dispatch",
                   holder |-> s.io_devices[d], elsewhere |-> HeldSomewhere(s, p),
                   remaining_quantum |-> s.procs[p].remaining_quantum,
                   quantum |-> s.procs[p].quantum,
                   left |-> s.wait_queue, procs |-> s.procs,
                   stamp |-> s.wstamp, nevents |-> Len(s.events)]),
              !.io_devices[d] = p]

----------------------------------------------------------------------------
(* step(), phase 1: arrivals (scheduler.py 265-279) *)

RECURSIVE AdmitArrivals(_, _)
AdmitArrivals(s, todo) ==       \* todo: the copy future_processes[:] still to visit
    IF todo = <<>> THEN s
    ELSE LET p == Head(todo) IN
         IF s.procs[p].arrival_time <= s.now
         THEN AdmitArrivals(
                  [Enqueue(s, p) EXCEPT
                      !.future_processes = RemoveAt(@, IndexOf(@, p))],
                  Tail(todo))
         ELSE AdmitArrivals(s, Tail(todo))

RECURSIVE RecordArrivals(_, _)
RecordArrivals(s, arrivals) ==
    IF arrivals = <<>> THEN s
    ELSE RecordArrivals(Record(s, "arrival", Head(arrivals), NoDevice), Tail(arrivals))

ArrivalPhase(s) ==
    LET arrivals == SelectSeq(s.future_processes,
                              LAMBDA p : s.procs[p].arrival_time <= s.now)
    IN  RecordArrivals(AdmitArrivals(s, s.future_processes), arrivals)

----------------------------------------------------------------------------
(* step(), phase 2: the loop over the CPUs (scheduler.py 281-376) *)

\* proc = cpu.tick(): the process the CPU gives back, None when it keeps it
CpuTickReturns(s, c) ==
    LET cur == s.cpus[c] IN
    IF cur # None /\ CpuTickActs(s.procs[cur]) /\ BurstCompletes(s.procs[cur])
    THEN cur ELSE None

\* the state after cpu.tick()
CpuTick(s, c) ==
    LET cur == s.cpus[c] IN
    IF cur = None THEN s
    ELSE LET t == [s EXCEPT !.ticks[cur] = @ + 1, !.streak[cur] = @ + 1] IN
         IF ~CpuTickActs(s.procs[cur]) THEN t
         ELSE [t EXCEPT !.procs[cur] = TickBurst(@),
                        !.cpus[c] = IF BurstCompletes(s.procs[cur]) THEN None ELSE cur]

\* a variant of the test that never finds the quantum expired
QuantumExpiredNever(P) == FALSE

\* "remaining_quantum <= 0 and remaining_burst_time() > 0"
QuantumExpired(P) == P.remaining_quantum <= 0 /\ remaining_burst_time(P) > 0

\* Round Robin: the holder pays one unit of quantum and is preempted at zero
RRQuantum(s, c) ==
    LET cur == s.cpus[c]
        s1 == [s EXCEPT !.procs[cur].remaining_quantum = @ - 1]
    IN  IF QuantumExpired(s1.procs[cur])
        THEN LET s2 == [s1 EXCEPT !.cpus[c] = None,
                                  !.procs[cur].remaining_quantum = s.procs[cur].quantum]
             IN  Record(Enqueue(s2, cur), "preempted", cur, CpuName(c))
        ELSE s1

\* the ready process min(...) finds, and the test that decides the preemption
BestReady(alg, pr, rq) == rq[FirstMinIndex(alg, pr, rq)]

\* variants of the test: preempting on a tie, and never preempting
ShouldPreemptOnTie(alg, pr, rq, cur) ==
    PolicyKey(alg, pr[BestReady(alg, pr, rq)]) <= PolicyKey(alg, pr[cur])

ShouldPreemptNever(alg, pr, rq, cur) == FALSE

ShouldPreempt(alg, pr, rq, cur) ==
    PolicyKey(alg, pr[BestReady(alg, pr, rq)]) < PolicyKey(alg, pr[cur])

\* the observation of _select_process_for_cpu: the queue it chose from, the
\* processes' fields, and the index (from 1) of the process it took
ObserveSelect(s, i) ==
    [s EXCEPT !.selects = Append(@, [index |-> i, ready |-> s.ready_queue,
                                     procs |-> s.procs])]

\* a variant that forgets to put the preempted process back
PolicyPreemptDrops(s, c) ==
    LET cur == s.cpus[c] IN
    IF ShouldPreempt(algorithm, s.procs, s.ready_queue, cur)
    THEN LET s1 == [s EXCEPT !.cpus[c] = None]
             i == SelectIndex(algorithm, s1.procs, s1.ready_queue)
             new_proc == s1.ready_queue[i]
             s2 == [ObserveSelect(s1, i) EXCEPT !.ready_queue = RemoveAt(@, i)]
         IN  Record(AssignCpu(s2, c, new_proc, "preempt"), "preempted", cur, CpuName(c))
    ELSE s

\* SRTF / PriorityPreemptive: the holder goes back to the ready queue and
\* the selected process is assigned to this CPU
PolicyPreempt(s, c) ==
    LET cur == s.cpus[c] IN
    IF ShouldPreempt(algorithm, s.procs, s.ready_queue, cur)
    THEN LET s1 == Enqueue([s EXCEPT !.cpus[c] = None], cur)
             i == SelectIndex(algorithm, s1.procs, s1.ready_queue)
             new_proc == s1.ready_queue[i]
             s2 == [ObserveSelect(s1, i) EXCEPT !.ready_queue = RemoveAt(@, i)]
         IN  Record(AssignCpu(s2, c, new_proc, "preempt"), "preempted", cur, CpuName(c))
    ELSE s

\* self.finished.append(proc); finish_time[proc] is the time of the event
Finish(s, proc) ==
    [s EXCEPT !.finished = Append(@, proc), !.finish_time[proc] = s.now]

\* self.wait_queue.append(proc); wstamp[proc] numbers the entries
EnterWait(s, proc) ==
    [s EXCEPT !.wait_queue = Append(@, proc),
              !.wstamp[proc] = s.nwait + 1,
              !.nwait = @ + 1]

\* "if proc:" the process whose CPU burst completed is routed by its next burst
RouteFromCpu(s, c, proc) ==
    IF ~HasCurrentBurst(s.procs[proc])
    THEN Record(Finish(s, proc), "finished", proc, CpuName(c))
    ELSE IF current_burst(s.procs[proc]).kind = "io"
    THEN Record(EnterWait(s, proc), "cpu_to_io", proc, CpuName(c))
    ELSE Record(Enqueue(s, proc), "cpu_to_ready", proc, CpuName(c))

\* a variant that applies the preemption test under every policy but RR
AfterTickEveryPolicy(s, c) ==
    IF algorithm = "RR" /\ s.cpus[c] # None THEN RRQuantum(s, c)
    ELSE IF s.cpus[c] # None /\ s.ready_queue # <<>>
    THEN PolicyPreempt(s, c)
    ELSE s

\* what the loop body does after the tick to a CPU that still holds a process
AfterTick(s, c) ==
    IF algorithm = "RR" /\ s.cpus[c] # None THEN RRQuantum(s, c)
    ELSE IF s.cpus[c] # None /\ s.ready_queue # <<>>
            /\ algorithm \in {"SRTF", "PriorityPreemptive"}
    THEN PolicyPreempt(s, c)
    ELSE s

\* the observation of the check: who held the CPU after its tick, the ready
\* queue seen by the check, and who holds the CPU after it
ObserveCheck(s, t, c) ==
    IF s.cpus[c] = None THEN t
    ELSE [t EXCEPT !.checks = Append(@,
             [cid |-> c, process |-> s.cpus[c], ready |-> s.ready_queue,
              procs |-> s.procs, after |-> t.cpus[c], ready_after |-> t.ready_queue,
              procs_after |-> t.procs,
              streak |-> s.streak[s.cpus[c]]])]

HandleCpu(s, c) ==
    LET proc == CpuTickReturns(s, c)
        s1 == CpuTick(s, c)
        s2 == ObserveCheck(s1, AfterTick(s1, c), c)
    IN  IF proc # None THEN RouteFromCpu(s2, c, proc) ELSE s2

RECURSIVE CpuPhase(_, _)
CpuPhase(s, c) ==             \* for cpu in self.cpus, from index c on
    IF c >= num_cpus THEN s ELSE CpuPhase(HandleCpu(s, c), c + 1)

----------------------------------------------------------------------------
(* step(), phase 3: the loop over the I/O devices (scheduler.py 378-406) *)

IoTickReturns(s, d) ==
    LET cur == s.io_devices[d] IN
    IF cur # None /\ IoTickActs(s.procs[cur]) /\ BurstCompletes(s.procs[cur])
    THEN cur ELSE None

IoTick(s, d) ==
    LET cur == s.io_devices[d] IN
    IF cur = None \/ ~IoTickActs(s.procs[cur]) THEN s
    ELSE [s EXCEPT !.procs[cur] = TickBurst(@),
                   !.io_devices[d] = IF BurstCompletes(s.procs[cur]) THEN None ELSE cur]

\* the process whose I/O completed finishes, or else goes to the ready queue
RouteFromIo(s, d, proc) ==
    IF ~HasCurrentBurst(s.procs[proc])
    THEN Record(Finish(s, proc), "finished", proc, IoName(d))
    ELSE Record(Enqueue(s, proc), "io_to_ready", proc, IoName(d))

HandleIo(s, d) ==
    LET proc == IoTickReturns(s, d)
        s1 == IoTick(s, d)
    IN  IF proc # None THEN RouteFromIo(s1, d, proc) ELSE s1

RECURSIVE IoPhase(_, _)
IoPhase(s, d) ==
    IF d >= num_ios THEN s ELSE IoPhase(HandleIo(s, d), d + 1)

----------------------------------------------------------------------------
(* step(), phases 4 and 5: dispatch (scheduler.py 408-430) *)

\* a variant that places the selected process and leaves it in the ready queue
DispatchOneCpuKeepsQueued(s, c) ==
    IF s.cpus[c] = None /\ s.ready_queue # <<>>
    THEN LET i == SelectIndex(algorithm, s.procs, s.ready_queue)
             proc == s.ready_queue[i]
         IN  Record(AssignCpu(s, c, proc, "dispatch"), "dispatch_cpu", proc, CpuName(c))
    ELSE s

DispatchOneCpu(s, c) ==
    IF s.cpus[c] = None /\ s.ready_queue # <<>>
    THEN LET i == SelectIndex(algorithm, s.procs, s.ready_queue)
             proc == s.ready_queue[i]
             s1 == [ObserveSelect(s, i) EXCEPT !.ready_queue = RemoveAt(@, i)]
         IN  Record(AssignCpu(s1, c, proc, "dispatch"), "dispatch_cpu", proc, CpuName(c))
    ELSE s

RECURSIVE DispatchCpus(_, _)
DispatchCpus(s, c) ==
    IF c >= num_cpus THEN s ELSE DispatchCpus(DispatchOneCpu(s, c), c + 1)

\* a variant that takes the process that entered the wait queue last
DispatchOneIoLast(s, d) ==
    IF s.io_devices[d] = None /\ s.wait_queue # <<>>
    THEN LET proc == s.wait_queue[Len(s.wait_queue)]
             s1 == [s EXCEPT !.wait_queue = SubSeq(@, 1, Len(@) - 1)]
         IN  Record(AssignIo(s1, d, proc), "dispatch_io", proc, IoName(d))
    ELSE s

DispatchOneIo(s, d) ==
    IF s.io_devices[d] = None /\ s.wait_queue # <<>>
    THEN LET proc == Head(s.wait_queue)
             s1 == [s EXCEPT !.wait_queue = Tail(@)]
         IN  Record(AssignIo(s1, d, proc), "dispatch_io", proc, IoName(d))
    ELSE s

RECURSIVE DispatchIos(_, _)
DispatchIos(s, d) ==
    IF d >= num_ios THEN s ELSE DispatchIos(DispatchOneIo(s, d), d + 1)

\* the CPUs' holders as the step leaves them
ObserveStep(s) ==
    [s EXCEPT !.trace = Append(@, s.cpus), !.io_trace = Append(@, s.io_devices)]

\* a variant of step() that ticks the I/O devices after the dispatch
StepResultIoTickLast(s) ==
    ObserveStep(IoPhase(DispatchIos(DispatchCpus(CpuPhase(ArrivalPhase(s), 0), 0), 0), 0))

\* a variant of step() that admits the arrivals after the dispatch
StepResultArrivalsLast(s) ==
    ObserveStep(ArrivalPhase(DispatchIos(DispatchCpus(IoPhase(CpuPhase(s, 0), 0), 0), 0)))

\* a variant of step() that dispatches to the CPUs before it ticks them
StepResultDispatchFirst(s) ==
    ObserveStep(DispatchIos(IoPhase(CpuPhase(DispatchCpus(ArrivalPhase(s), 0), 0), 0), 0))

\* a variant of step() that records an event for the tick itself
StepResultRecordsTick(s) ==
    ObserveStep(Record(DispatchIos(DispatchCpus(IoPhase(CpuPhase(ArrivalPhase(s), 0), 0), 0), 0),
                       "tick", None, NoDevice))

\* the scheduler after one step(), before the clock ticks
StepResult(s) ==
    ObserveStep(DispatchIos(DispatchCpus(IoPhase(CpuPhase(ArrivalPhase(s), 0), 0), 0), 0))

----------------------------------------------------------------------------
(* Workloads *)

\* the burst lists a process is created with; every burst is at least 1 long
CpuOnly == {<<Cpu(n)>> : n \in 1..MaxBurstLen}
CpuIoCpu == {<<Cpu(MaxBurstLen), Io(1), Cpu(1)>>}
EndsWithIo == {<<Cpu(1), Io(1)>>}
NonAlternating == {<<Cpu(MaxBurstLen), Cpu(1)>>, <<Io(1)>>}
BurstLists == CpuOnly \cup CpuIoCpu \cup EndsWithIo \cup NonAlternating

\* priority is read only by the priority policies and quantum only by RR;
\* under the other policies the field takes one value
Priorities(alg) ==
    IF alg \in {"Priority", "PriorityPreemptive"} THEN 1..MaxPriority ELSE {1}
Quanta(alg) == IF alg \in SortedPolicies THEN {MaxQuantum} ELSE 1..MaxQuantum

----------------------------------------------------------------------------
(* Scheduler.__init__ *)

Construct(algs, ncpus, nios) ==
    /\ algorithm \in algs
    /\ num_cpus \in ncpus
    /\ num_ios \in nios
    /\ clock = 0
    /\ procs = <<>>
    /\ ready_queue = <<>>
    /\ wait_queue = <<>>
    /\ cpus = [c \in 0..(num_cpus - 1) |-> None]
    /\ io_devices = [d \in 0..(num_ios - 1) |-> None]
    /\ finished = <<>>
    /\ future_processes = <<>>
    /\ events = <<>>
    /\ obs = [assigned |-> <<>>, ticks |-> <<>>, streak |-> <<>>, stamp |-> <<>>,
              nstamp |-> 0, checks |-> <<>>, assigns |-> <<>>, selects |-> <<>>,
              settled |-> FALSE,
              wstamp |-> <<>>, nwait |-> 0, finish_time |-> <<>>,
              order |-> <<>>, trace |-> <<>>, io_trace |-> <<>>]
    /\ driver = "setup"

\* a program that is not running
NotRunning == [pc |-> "none"]

\* the scheduler used on its own, by a caller of add_process and step
InitWith(algs, ncpus, nios) ==
    /\ Construct(algs, ncpus, nios)
    /\ main = NotRunning
    /\ generator = NotRunning
    /\ fragment = NotRunning

Init == InitWith(Algorithms, 1..MaxCpus, 1..MaxIos)

\* the scheduler proper: what the next step() depends on, the clock aside
Core(s) == <<s.procs, s.ready_queue, s.wait_queue, s.cpus, s.io_devices,
             s.finished, s.future_processes>>

\* an operation that found no arrival pending and left the scheduler as it was:
\* every later step() repeats it, so the model takes such a step once
Settled(s, r) == s.future_processes = <<>> /\ Core(r) = Core(s)

\* the variables an operation on the scheduler sets from its result r, s
\* being the scheduler the operation started from
BecomesFrom(s, r) ==
    /\ procs' = r.procs
    /\ ready_queue' = r.ready_queue
    /\ wait_queue' = r.wait_queue
    /\ cpus' = r.cpus
    /\ io_devices' = r.io_devices
    /\ finished' = r.finished
    /\ future_processes' = r.future_processes
    /\ events' = r.events
    /\ obs' = [assigned |-> r.assigned, ticks |-> r.ticks, streak |-> r.streak,
               stamp |-> r.stamp, nstamp |-> r.nstamp,
               checks |-> r.checks, assigns |-> r.assigns, selects |-> r.selects,
               settled |-> Settled(s, r),
               wstamp |-> r.wstamp, nwait |-> r.nwait, finish_time |-> r.finish_time,
               order |-> r.order, trace |-> r.trace, io_trace |-> r.io_trace]

Becomes(r) == BecomesFrom(Here, r)

----------------------------------------------------------------------------
(* add_process (scheduler.py 174-197) *)

\* list.sort(key=arrival_time): a stable sort, as an insertion sort
RECURSIVE SortByArrival(_, _)
SortByArrival(pr, seq) ==
    IF seq = <<>> THEN <<>>
    ELSE LET n == Len(seq)
             front == SortByArrival(pr, SubSeq(seq, 1, n - 1))
             x == seq[n]
             k == Cardinality({i \in DOMAIN front :
                                  pr[front[i]].arrival_time <= pr[x].arrival_time})
         IN  InsertAt(front, k, x)

AddResult(s, P) ==
    LET pid == Len(s.procs) + 1
        s1 == [s EXCEPT !.procs = Append(@, P),
                        !.assigned = Append(@, P.bursts),
                        !.ticks = Append(@, 0),
                        !.streak = Append(@, 0),
                        !.stamp = Append(@, 0),
                        !.wstamp = Append(@, 0),
                        !.finish_time = Append(@, -1)]
    IN  IF P.arrival_time <= s.now
        THEN Record(Enqueue(s1, pid), "enqueue", pid, NoDevice)
        ELSE [s1 EXCEPT !.future_processes =
                            SortByArrival(s1.procs, Append(@, pid))]

AddProcess ==
    /\ driver = "setup"
    /\ clock = 0
    /\ Len(procs) < MaxProcs
    /\ \E arrival \in 0..MaxArrival, prio \in Priorities(algorithm),
          q \in Quanta(algorithm), bursts \in BurstLists :
          Becomes(AddResult(Here, NewProcess(arrival, prio, q, bursts)))
    /\ UNCHANGED <<algorithm, num_cpus, num_ios, clock, driver>>
    /\ UNCHANGED others

----------------------------------------------------------------------------
(* step() (scheduler.py 260-434) *)

Step ==
    /\ driver = "setup"
    /\ clock < MaxClock
    /\ ~obs.settled
    /\ Becomes(StepResult(Here))
    /\ clock' = clock + 1
    /\ UNCHANGED <<algorithm, num_cpus, num_ios, driver>>
    /\ UNCHANGED others

Next == AddProcess \/ Step

Spec == Init /\ [][Next]_vars

\* one policy at a time
SpecFCFS == InitWith({"FCFS"}, 1..MaxCpus, 1..MaxIos) /\ [][Next]_vars
SpecSRTF == InitWith({"SRTF"}, 1..MaxCpus, 1..MaxIos) /\ [][Next]_vars
SpecPriority == InitWith({"Priority"}, 1..MaxCpus, 1..MaxIos) /\ [][Next]_vars
SpecPP == InitWith({"PriorityPreemptive"}, 1..MaxCpus, 1..MaxIos) /\ [][Next]_vars
SpecRR == InitWith({"RR"}, 1..MaxCpus, 1..MaxIos) /\ [][Next]_vars

\* Round Robin and a scheduler constructed with a name that is no policy's
OtherName == "MLFQ"
SpecOther == InitWith({"RR", OtherName}, 1..MaxCpus, 1..MaxIos) /\ [][Next]_vars

\* every policy, with as many CPUs as the bound allows and one or more devices
SpecWait == InitWith(Algorithms, {MaxCpus}, 1..MaxDevices) /\ [][Next]_vars

----------------------------------------------------------------------------
(* The concrete scenarios: one CPU, one I/O device, processes of a single  *)
(* CPU burst.  The workloads the caller may add include those of the       *)
(* scenarios S1 to S5 and their neighbours.                                *)

ScenarioAlgorithms == {"FCFS", "SJF", "SRTF", "RR", "PriorityPreemptive"}
ScenarioArrivals == {0, 1, 2}
ScenarioBursts == {<<Cpu(n)>> : n \in {2, 3, 5, 8}}
ScenarioPriorities(alg) == IF alg = "PriorityPreemptive" THEN {1, 5} ELSE {1}
ScenarioQuanta == {2}

AddScenarioProcess ==
    /\ driver = "setup"
    /\ clock = 0
    /\ Len(procs) < MaxProcs
    /\ \E arrival \in ScenarioArrivals, prio \in ScenarioPriorities(algorithm),
          q \in ScenarioQuanta, bursts \in ScenarioBursts :
          Becomes(AddResult(Here, NewProcess(arrival, prio, q, bursts)))
    /\ UNCHANGED <<algorithm, num_cpus, num_ios, clock, driver>>
    /\ UNCHANGED others

NextScenario == AddScenarioProcess \/ Step

SpecScenarios == InitWith(ScenarioAlgorithms, {1}, {1}) /\ [][NextScenario]_vars

\* the workloads of scenario S6 and its neighbours: Round Robin, processes
\* that go from the CPU to an I/O device and back
RoutingArrivals == {0, 1}
RoutingBursts == {<<Cpu(2), Io(3), Cpu(1)>>, <<Cpu(2), Io(1)>>, <<Cpu(3)>>}
RoutingQuanta == {2, 10}

AddRoutingProcess ==
    /\ driver = "setup"
    /\ clock = 0
    /\ Len(procs) < MaxProcs
    /\ \E arrival \in RoutingArrivals, q \in RoutingQuanta, bursts \in RoutingBursts :
          Becomes(AddResult(Here, NewProcess(arrival, 1, q, bursts)))
    /\ UNCHANGED <<algorithm, num_cpus, num_ios, clock, driver>>
    /\ UNCHANGED others

NextRouting == AddRoutingProcess \/ Step

SpecRouting == InitWith({"RR"}, {1}, {1}) /\ [][NextRouting]_vars

----------------------------------------------------------------------------
(* run() (scheduler.py 436-450): the caller adds its processes and calls   *)
(* run(); each iteration of the while loop is one step()                   *)

\* the while condition of run()
RunCondition ==
    \/ ready_queue # <<>>
    \/ wait_queue # <<>>
    \/ \E c \in DOMAIN cpus : cpus[c] # None
    \/ \E d \in DOMAIN io_devices : io_devices[d] # None

RunLoop ==
    /\ driver \in {"setup", "run"}
    /\ RunCondition
    /\ clock < MaxClock
    /\ ~obs.settled
    /\ Becomes(StepResult(Here))
    /\ clock' = clock + 1
    /\ driver' = "run"
    /\ UNCHANGED <<algorithm, num_cpus, num_ios>>
    /\ UNCHANGED others

RunReturn ==
    /\ driver \in {"setup", "run"}
    /\ ~RunCondition
    /\ driver' = "returned"
    /\ UNCHANGED <<algorithm, num_cpus, num_ios, clock, procs, ready_queue,
                   wait_queue, cpus, io_devices, finished, future_processes,
                   events, obs>>
    /\ UNCHANGED others

NextRun == AddProcess \/ RunLoop \/ RunReturn

\* run() does not read the policy: one policy is enough here
SpecRun == InitWith({"FCFS"}, 1..MaxCpus, 1..MaxIos) /\ [][NextRun]_vars

----------------------------------------------------------------------------
(* Properties *)

Count(seq, x) == Cardinality({i \in DOMAIN seq : seq[i] = x})
Pids == DOMAIN procs
Idle ==
    /\ \A c \in DOMAIN cpus : cpus[c] = None
    /\ \A d \in DOMAIN io_devices : io_devices[d] = None
Quiescent ==
    /\ future_processes = <<>> /\ ready_queue = <<>> /\ wait_queue = <<>> /\ Idle
AllFinished == \A p \in Pids : p \in Range(finished)
EventsOf(type) == {i \in DOMAIN events : events[i].event_type = type}
CpuAssigns == {i \in DOMAIN obs.assigns : obs.assigns[i].unit = "CPU"}

\* the number of places that hold process p
Places(p) ==
    Count(future_processes, p) + Count(ready_queue, p) + Count(wait_queue, p)
    + Count(finished, p)
    + Cardinality({c \in DOMAIN cpus : cpus[c] = p})
    + Cardinality({d \in DOMAIN io_devices : io_devices[d] = p})

\* C1: after add_process and at the end of every step(), each process handed
\* to add_process is in exactly one of future_processes, ready_queue, one
\* CPU, wait_queue, one I/O device, finished.
C1_ExactlyOnePlace == \A p \in Pids : Places(p) = 1

\* a step in which a policy preemption swapped two processes on a CPU while
\* another process was waiting for I/O, doing I/O or finished
C1_Witness ==
    /\ \E i \in CpuAssigns : obs.assigns[i].via = "preempt"
    /\ \/ wait_queue # <<>>
       \/ finished # <<>>
       \/ \E d \in DOMAIN io_devices : io_devices[d] # None

\* C2: run() returns only when future_processes, the ready queue and the
\* wait queue are empty and every CPU and I/O device is idle.
C2_RunReturnsQuiescent == driver = "returned" => Quiescent

\* C3: every added process finishes.  step() is a function of the
\* scheduler's state, and of the clock only while arrivals are pending; so
\* if a step() with no arrival pending leaves the scheduler as it found it,
\* every later step() does, and the claim requires that by then every added
\* process is finished and the scheduler is quiescent.
C3_SettlesOnlyWhenFinished == obs.settled => (AllFinished /\ Quiescent)

\* C4: the ticks a process has spent on a CPU never exceed the sum of the
\* CPU bursts it was created with, and equal it once the process is finished.
C4_TicksWithinBursts ==
    \A p \in Pids :
        /\ obs.ticks[p] <= SumCpuFrom(obs.assigned[p], 1)
        /\ p \in Range(finished) => obs.ticks[p] = SumCpuFrom(obs.assigned[p], 1)

\* C5: under FCFS every process dispatched to a CPU has an arrival_time not
\* greater than that of any process left in the ready queue at that moment,
\* and of two with equal arrival_time the one inserted first goes first.
C5_FcfsDispatchOrder ==
    algorithm = "FCFS" =>
    \A i \in EventsOf("dispatch_cpu") :
        \A j \in DOMAIN events[i].ready_queue :
            LET p == events[i].process
                q == events[i].ready_queue[j]
            IN  /\ procs[p].arrival_time <= procs[q].arrival_time
                /\ procs[p].arrival_time = procs[q].arrival_time
                       => obs.stamp[p] < obs.stamp[q]

\* an FCFS dispatch that left behind both a process of equal arrival_time
\* and a process that arrived later
C5_Witness ==
    /\ algorithm = "FCFS"
    /\ \E i \in EventsOf("dispatch_cpu") :
           LET p == events[i].process
               left == Range(events[i].ready_queue)
           IN  /\ \E q \in left : procs[q].arrival_time = procs[p].arrival_time
               /\ \E q \in left : procs[q].arrival_time > procs[p].arrival_time

\* C6: under Priority, at every dispatch_cpu event no process left in the
\* ready queue has a strictly lower priority number than the dispatched one.
C6_PriorityDispatch ==
    algorithm = "Priority" =>
    \A i \in EventsOf("dispatch_cpu") :
        \A j \in DOMAIN events[i].ready_queue :
            ~(procs[events[i].ready_queue[j]].priority < procs[events[i].process].priority)

\* a Priority dispatch that passed over a process of lower priority which
\* had been inserted into the ready queue earlier
C6_Witness ==
    /\ algorithm = "Priority"
    /\ \E i \in EventsOf("dispatch_cpu") :
           \E j \in DOMAIN events[i].ready_queue :
               LET p == events[i].process
                   q == events[i].ready_queue[j]
               IN  /\ procs[q].priority > procs[p].priority
                   /\ obs.stamp[q] < obs.stamp[p]

\* C7: under RR no process spends more than quantum consecutive ticks on a
\* CPU after an assignment (streak counts the ticks since the assignment).
C7_QuantumBound ==
    algorithm = "RR" => \A p \in Pids : obs.streak[p] <= procs[p].quantum

\* the checks of the last step: one for each CPU that still held a process
\* after its tick, with the ready queue and the burst counts the check saw
Checks == {obs.checks[i] : i \in DOMAIN obs.checks}
Preempted(k) == k.after # k.process
PositionIn(seq, x) == CHOOSE j \in DOMAIN seq : seq[j] = x

\* C8: under SRTF a process still on its CPU after the tick is preempted
\* exactly when some ready process has strictly less remaining burst time;
\* then a ready process of minimal remaining time holds that CPU at the end
\* of the same step, and the preempted process is in the ready queue behind
\* every process with at most its remaining time and ahead of the others.
C8_SrtfPreemption ==
    algorithm = "SRTF" =>
    \A k \in Checks :
        LET rem(p) == remaining_burst_time(k.procs[p])
            r_now == rem(k.process)
            pos == PositionIn(k.ready_after, k.process)
        IN  /\ Preempted(k) <=> \E q \in Range(k.ready) : rem(q) < r_now
            /\ Preempted(k) =>
                 /\ k.after \in Range(k.ready)
                 /\ \A q \in Range(k.ready) : rem(k.after) <= rem(q)
                 /\ cpus[k.cid] = k.after
                 /\ Count(k.ready_after, k.process) = 1
                 /\ Range(k.ready_after) = (Range(k.ready) \ {k.after}) \cup {k.process}
                 /\ \A j \in DOMAIN k.ready_after :
                        /\ j < pos => rem(k.ready_after[j]) <= r_now
                        /\ j > pos => r_now < rem(k.ready_after[j])

\* an SRTF step with two CPUs: on one the holder met a ready process of equal
\* remaining time and stayed, on the other the holder was preempted
C8_Witness ==
    /\ algorithm = "SRTF"
    /\ \E k \in Checks : Preempted(k)
    /\ \E k \in Checks :
           /\ ~Preempted(k)
           /\ \E q \in Range(k.ready) :
                  remaining_burst_time(k.procs[q]) = remaining_burst_time(k.procs[k.process])

\* C9: under PriorityPreemptive a process still on its CPU after the tick is
\* preempted exactly when some ready process has a strictly lower priority
\* number; then a ready process of the best priority holds that CPU at the
\* end of the same step and the preempted process is in the ready queue.
C9_PriorityPreemption ==
    algorithm = "PriorityPreemptive" =>
    \A k \in Checks :
        LET prio(p) == procs[p].priority IN
        /\ Preempted(k) <=> \E q \in Range(k.ready) : prio(q) < prio(k.process)
        /\ Preempted(k) =>
             /\ k.after \in Range(k.ready)
             /\ \A q \in Range(k.ready) : prio(k.after) <= prio(q)
             /\ cpus[k.cid] = k.after
             /\ Count(k.ready_after, k.process) = 1
             /\ Range(k.ready_after) = (Range(k.ready) \ {k.after}) \cup {k.process}

\* a PriorityPreemptive step with two CPUs: one holder met a ready process of
\* equal priority and stayed, the other holder was preempted
C9_Witness ==
    /\ algorithm = "PriorityPreemptive"
    /\ \E k \in Checks : Preempted(k)
    /\ \E k \in Checks :
           /\ ~Preempted(k)
           /\ \E q \in Range(k.ready) : procs[q].priority = procs[k.process].priority

\* C10: at every assignment of a process to a CPU its remaining_quantum
\* equals its quantum, and so it does after a quantum preemption put it back.
C10_FullQuantumAtDispatch ==
    /\ \A i \in CpuAssigns : obs.assigns[i].remaining_quantum = obs.assigns[i].quantum
    /\ algorithm = "RR" =>
           \A i \in EventsOf("preempted") :
               procs[events[i].process].remaining_quantum = procs[events[i].process].quantum

\* C11: under FCFS, SJF, SRTF, Priority and PriorityPreemptive, of two
\* processes of equal policy key that are both in the ready queue the one
\* inserted earlier is ahead of the other, and a process placed on a CPU was
\* inserted earlier than every process of equal key it leaves in the queue.
C11_StableUnderTies ==
    algorithm \in SortedPolicies =>
    /\ \A i, j \in DOMAIN ready_queue :
           (i < j /\ PolicyKey(algorithm, procs[ready_queue[i]])
                      = PolicyKey(algorithm, procs[ready_queue[j]]))
               => obs.stamp[ready_queue[i]] < obs.stamp[ready_queue[j]]
    /\ \A a \in CpuAssigns :
           LET k == obs.assigns[a] IN
           \A q \in Range(k.left) :
               PolicyKey(algorithm, k.procs[q]) = PolicyKey(algorithm, k.procs[k.process])
                   => k.stamp[k.process] < k.stamp[q]

\* a step that placed a process on a CPU and left two processes of the same
\* key in the ready queue, the selected one not being the first one added
C11_Witness ==
    /\ algorithm \in SortedPolicies
    /\ \E a \in CpuAssigns :
           LET k == obs.assigns[a] IN
           /\ k.process # 1
           /\ \E q \in Range(k.left) :
                  PolicyKey(algorithm, k.procs[q]) = PolicyKey(algorithm, k.procs[k.process])
    /\ \E i, j \in DOMAIN ready_queue :
           /\ i < j
           /\ PolicyKey(algorithm, procs[ready_queue[i]])
                  = PolicyKey(algorithm, procs[ready_queue[j]])

\* C12: a process whose arrival_time is the tick of the step just taken has
\* left future_processes in that step, before the dispatch: its arrival
\* event bears that time and precedes every placement of the step, the
\* process is in the ready queue or on a CPU, and it is still in the ready
\* queue only if the dispatch left no CPU idle.
C12_ArrivalsSeenByDispatch ==
    /\ \A p \in Pids :
           (clock > 0 /\ procs[p].arrival_time = clock - 1) =>
               /\ p \notin Range(future_processes)
               /\ p \in Range(ready_queue) \/ \E c \in DOMAIN cpus : cpus[c] = p
               /\ p \in Range(ready_queue) => \A c \in DOMAIN cpus : cpus[c] # None
    /\ \A i \in EventsOf("arrival") :
           /\ events[i].time = procs[events[i].process].arrival_time
           /\ \A a \in CpuAssigns : obs.assigns[a].nevents >= i

\* a step at a tick after 0 that admitted a process and dispatched it to a
\* CPU, while another admitted process stayed in the ready queue
C12_Witness ==
    /\ clock > 1
    /\ \E i \in EventsOf("arrival"), j \in EventsOf("dispatch_cpu") :
           /\ events[j].process = events[i].process
           /\ events[i].time = clock - 1
    /\ \E i \in EventsOf("arrival") : events[i].process \in Range(ready_queue)

\* C13: a process placed on a CPU in a step, by the dispatch or by a policy
\* preemption, still holds that CPU when the step ends, with its bursts and
\* its remaining_quantum as they were when it was placed, and no preempted
\* event of the step that follows the placement names it; and every quantum
\* or preemption check finds a process that has spent at least one tick on
\* the CPU since it was placed.
C13_TickBeforeCheck ==
    /\ \A a \in CpuAssigns :
           LET k == obs.assigns[a] IN
           /\ cpus[k.id] = k.process
           /\ procs[k.process] = k.procs[k.process]
           /\ \A i \in EventsOf("preempted") :
                  events[i].process = k.process => i <= k.nevents
    /\ \A k \in Checks : k.streak >= 1

\* a step whose check preempted a process after its first tick on the CPU
\* and placed another by the preemption, and whose dispatch placed a third
C13_Witness ==
    /\ \E k \in Checks : k.streak = 1 /\ Preempted(k)
    /\ \E a \in CpuAssigns : obs.assigns[a].via = "preempt"
    /\ \E a \in CpuAssigns : obs.assigns[a].via = "dispatch"

IoAssigns == {i \in DOMAIN obs.assigns : obs.assigns[i].unit = "IO"}

\* C14: under every policy the wait queue holds its processes in the order
\* in which they entered it, a process placed on an I/O device entered the
\* wait queue before every process it leaves there, and the devices a step
\* fills are filled in ascending index: when a device is filled no device of
\* a lower index is idle, and of two placements of one step the earlier
\* one is on the lower device and of the process that entered first.
C14_WaitQueueFifo ==
    /\ \A i, j \in DOMAIN wait_queue :
           i < j => obs.wstamp[wait_queue[i]] < obs.wstamp[wait_queue[j]]
    /\ \A a \in IoAssigns :
           LET k == obs.assigns[a] IN
           \A q \in Range(k.left) : k.stamp[k.process] < k.stamp[q]
    /\ \A a, b \in IoAssigns :
           a < b => /\ obs.assigns[a].id < obs.assigns[b].id
                    /\ obs.wstamp[obs.assigns[a].process] < obs.wstamp[obs.assigns[b].process]
    /\ \A i \in EventsOf("dispatch_io") :
           \A d \in DOMAIN io_devices :
               d < events[i].device[2] => events[i].ios[d] # None

\* a step that filled two devices, the process with the larger pid first
C14_Witness ==
    \E a, b \in IoAssigns :
        /\ a < b
        /\ obs.assigns[a].process > obs.assigns[b].process

\* a step with one device that placed a process on it and left another waiting
C14_WitnessWaiting ==
    \E a \in IoAssigns : obs.assigns[a].left # <<>>

\* C15: at every assign(p) of a step, on a CPU or on an I/O device, by the
\* dispatch or by a policy preemption, the unit holds no process and p is in
\* no queue, on no other unit, not finished and not a future arrival.
C15_AssignOnlyWhenIdle ==
    \A a \in DOMAIN obs.assigns :
        /\ obs.assigns[a].holder = None
        /\ ~obs.assigns[a].elsewhere

\* a step with two CPUs that placed processes by a policy preemption, by the
\* CPU dispatch and by the I/O dispatch
C15_Witness ==
    /\ num_cpus > 1
    /\ \E a \in CpuAssigns : obs.assigns[a].via = "preempt"
    /\ \E a \in CpuAssigns : obs.assigns[a].via = "dispatch"
    /\ IoAssigns # {}

----------------------------------------------------------------------------
(* The scenarios.  Tick k is the unit of time between clock k and clock    *)
(* k+1.  The process that holds the CPU when the step() taken at clock k   *)
(* returns runs in tick k: the CPU's tick() at the start of the step at    *)
(* clock k+1 takes that unit off its burst.  A burst that is exhausted by  *)
(* the work of tick k is found complete by the step at clock k+1, whose    *)
(* finished event bears the time k+1: the process finishes at the end of   *)
(* tick k, at time k+1.                                                    *)

\* the workload: the processes in the order of add_process, each given by
\* its arrival_time and its burst list
Workload(alg, arrivals, bursts) ==
    /\ algorithm = alg /\ num_cpus = 1 /\ num_ios = 1
    /\ Len(procs) = Len(arrivals)
    /\ \A p \in Pids : procs[p].arrival_time = arrivals[p] /\ obs.assigned[p] = bursts[p]

\* the holder of the CPU in tick k is expected[k+1], and nobody afterwards
RunsAs(expected) ==
    \A k \in DOMAIN obs.trace :
        obs.trace[k][0] = IF k <= Len(expected) THEN expected[k] ELSE None

\* p is finished by the step taken at clock time, and not before
FinishesAt(p, time) ==
    obs.finish_time[p] = IF Len(obs.trace) > time THEN time ELSE -1

\* the steps up to and including the one taken at clock time have been taken
Past(time) == Len(obs.trace) > time

S1 == Workload("FCFS", <<0, 1>>, <<(<<Cpu(3)>>), (<<Cpu(2)>>)>>)

\* C16: in scenario S1, P1 holds the CPU in ticks 0 to 2 and is finished at
\* time 3 (the end of tick 2), P2 holds it in ticks 3 and 4 and is finished
\* at time 5 (the end of tick 4), and from time 5 on all is finished and the
\* CPU is idle: the total time is 5.
C16_ScenarioS1 ==
    S1 => /\ RunsAs(<<1, 1, 1, 2, 2>>)
          /\ FinishesAt(1, 3)
          /\ FinishesAt(2, 5)
          /\ Past(5) => (AllFinished /\ Quiescent)

\* S1 after the step taken at clock 5
C16_Witness == S1 /\ Past(5) /\ obs.finish_time[2] = 5

S2 == Workload("SJF", <<0, 0, 0>>, <<(<<Cpu(5)>>), (<<Cpu(2)>>), (<<Cpu(3)>>)>>)

\* C17: in scenario S2 the processes are placed on the CPU in the order
\* P2, P3, P1, each once, and are finished at the times 2, 5 and 10.
C17_ScenarioS2 ==
    S2 => /\ \A k \in DOMAIN obs.order : k <= 3 /\ obs.order[k] = <<2, 3, 1>>[k]
          /\ Past(10) => obs.order = <<2, 3, 1>>
          /\ FinishesAt(2, 2)
          /\ FinishesAt(3, 5)
          /\ FinishesAt(1, 10)

\* S2 after the step taken at clock 10
C17_Witness == S2 /\ Past(10) /\ obs.finish_time[1] = 10

S3 == Workload("SRTF", <<0, 2>>, <<(<<Cpu(8)>>), (<<Cpu(2)>>)>>)

\* C18: in scenario S3, P1 holds the CPU in ticks 0 and 1, P2 preempts it
\* in the step at clock 2 and holds the CPU in ticks 2 and 3, P1 holds it
\* again in ticks 4 to 9; P2 is finished at the end of tick 3 (time 4) and
\* P1 at the end of tick 9 (time 10).
C18_ScenarioS3 ==
    S3 => /\ RunsAs(<<1, 1, 2, 2, 1, 1, 1, 1, 1, 1>>)
          /\ FinishesAt(2, 4)
          /\ FinishesAt(1, 10)
          /\ (clock = 3 => \E i \in EventsOf("preempted") : events[i].process = 1)

\* S3 after the step taken at clock 10
C18_Witness == S3 /\ Past(10) /\ obs.finish_time[1] = 10

S4 == Workload("RR", <<0, 0>>, <<(<<Cpu(5)>>), (<<Cpu(3)>>)>>)

\* C19: in scenario S4 (both processes have quantum 2) the CPU is held in
\* the ticks 0 to 7 by P1, P1, P2, P2, P1, P1, P2, P1; P2 is finished at the
\* end of tick 6 (time 7) and P1 at the end of tick 7 (time 8).
C19_ScenarioS4 ==
    (S4 /\ \A p \in Pids : procs[p].quantum = 2) =>
        /\ RunsAs(<<1, 1, 2, 2, 1, 1, 2, 1>>)
        /\ FinishesAt(2, 7)
        /\ FinishesAt(1, 8)

\* S4 after the step taken at clock 8
C19_Witness == S4 /\ Past(8) /\ obs.finish_time[1] = 8

S5 == /\ Workload("PriorityPreemptive", <<0, 2>>, <<(<<Cpu(5)>>), (<<Cpu(2)>>)>>)
      /\ procs[1].priority = 5
      /\ procs[2].priority = 1

\* C20: in scenario S5, P1 holds the CPU in ticks 0 and 1, P2 preempts it in
\* the step at clock 2 and holds the CPU in ticks 2 and 3, P1 holds it again
\* in ticks 4 to 6 and is finished at the end of tick 6 (time 7).
C20_ScenarioS5 ==
    S5 => /\ RunsAs(<<1, 1, 2, 2, 1, 1, 1>>)
          /\ FinishesAt(2, 4)
          /\ FinishesAt(1, 7)
          /\ (clock = 3 => \E i \in EventsOf("preempted") : events[i].process = 1)

\* S5 after the step taken at clock 7
C20_Witness == S5 /\ Past(7) /\ obs.finish_time[1] = 7

\* the holder of the I/O device in tick k is expected[k+1], and nobody afterwards
IoRunsAs(expected) ==
    \A k \in DOMAIN obs.io_trace :
        obs.io_trace[k][0] = IF k <= Len(expected) THEN expected[k] ELSE None

\* the last step recorded an event of this type for process p
Recorded(type, p) == \E i \in EventsOf(type) : events[i].process = p

S6 == /\ Workload("RR", <<0>>, <<(<<Cpu(2), Io(3), Cpu(1)>>)>>)
      /\ procs[1].quantum = 10

\* C21: in scenario S6, P1 holds the CPU in ticks 0, 1 and 5 and the I/O
\* device in ticks 2 to 4, and is finished at the end of tick 5 (time 6); the
\* step at clock 2 that finds the CPU burst complete also places P1 on the
\* device, and the step at clock 5 that finds the I/O complete also places
\* P1 on the CPU.
C21_ScenarioS6 ==
    S6 => /\ RunsAs(<<1, 1, None, None, None, 1>>)
          /\ IoRunsAs(<<None, None, 1, 1, 1>>)
          /\ FinishesAt(1, 6)
          /\ clock = 3 => (Recorded("cpu_to_io", 1) /\ Recorded("dispatch_io", 1))
          /\ clock = 6 => (Recorded("io_to_ready", 1) /\ Recorded("dispatch_cpu", 1))

\* S6 after the step taken at clock 6
C21_Witness == S6 /\ Past(6) /\ obs.finish_time[1] = 6

\* what Round Robin does at a check: the holder pays one unit of quantum;
\* if the quantum is used up and CPU work remains, the holder leaves the CPU
\* for the tail of the ready queue with a full quantum
ActsAsRoundRobin(k) ==
    LET P == k.procs[k.process]
        paid == [P EXCEPT !.remaining_quantum = @ - 1]
    IN  IF QuantumExpired(paid)
        THEN /\ k.after = None
             /\ k.ready_after = Append(k.ready, k.process)
             /\ k.procs_after[k.process].remaining_quantum = P.quantum
        ELSE /\ k.after = k.process
             /\ k.ready_after = k.ready
             /\ k.procs_after[k.process].remaining_quantum = P.remaining_quantum - 1

\* the ready queue is in insertion order and every process placed on a CPU
\* was inserted before those it leaves in the queue
ActsAsFifo ==
    /\ \A i, j \in DOMAIN ready_queue :
           i < j => obs.stamp[ready_queue[i]] < obs.stamp[ready_queue[j]]
    /\ \A a \in CpuAssigns :
           \A q \in Range(obs.assigns[a].left) :
               obs.assigns[a].stamp[obs.assigns[a].process] < obs.assigns[a].stamp[q]

\* C22: a scheduler constructed with a name that is none of the six policy
\* names inserts at the tail, selects the head, and at every check of a CPU
\* that still holds a process does what Round Robin does.
C22_OtherNameActsAsRR ==
    algorithm \notin Algorithms => (ActsAsFifo /\ \A k \in Checks : ActsAsRoundRobin(k))

\* the same under Round Robin itself, and the queue discipline alone
RoundRobinActsAsRR ==
    algorithm = "RR" => (ActsAsFifo /\ \A k \in Checks : ActsAsRoundRobin(k))
OtherNameActsAsFifo == algorithm \notin Algorithms => ActsAsFifo

----------------------------------------------------------------------------
(* main.py: the orchestrator.  It loads a workload file, hands every       *)
(* loaded process to a new Scheduler and runs the Visualizer on it.        *)

MaxRecords == 2     \* number of records in a workload file
MaxEvents == 2      \* number of events handled in one frame

DefaultPriority == 0        \* p.get("priority", 0)
DefaultQuantum == 4         \* p.get("quantum", 4)
DefaultArrival == 0         \* p.get("arrival_time", 0)

\* a burst of a workload file: {"cpu": n}, {"io": {"type": .., "duration": n}},
\* or an object with neither key (here "sleep")
FileBurst(key, n) == [key |-> key, n |-> n]

FileBursts ==
    { <<>>,
      <<FileBurst("cpu", 1)>>,
      <<FileBurst("cpu", 0)>>,
      <<FileBurst("cpu", 2), FileBurst("io", 1)>>,
      <<FileBurst("cpu", 1), FileBurst("io", -1), FileBurst("cpu", 1)>>,
      <<FileBurst("cpu", 1), FileBurst("sleep", 1)>>,
      <<FileBurst("sleep", 1)>> }

\* the optional keys of a record: a set that is empty when the key is absent
FileFields ==
    { [priority |-> {}, quantum |-> {}, arrival_time |-> {}],
      [priority |-> {1}, quantum |-> {2}, arrival_time |-> {1}] }

FileRecords ==
    { [bursts |-> b, priority |-> f.priority, quantum |-> f.quantum,
       arrival_time |-> f.arrival_time] : b \in FileBursts, f \in FileFields }

Files == UNION { [1..n -> FileRecords] : n \in 0..MaxRecords }

\* the limit argument: absent (None) or a number
Limits == { {}, {1}, {MaxRecords + 1} }

\* dict.get(key, default)
Get(field, default) == IF field = {} THEN default ELSE CHOOSE v \in field : TRUE

\* the inner loop of the loader: a cpu burst and an io burst are copied,
\* anything else is skipped
RECURSIVE ConvertBursts(_)
ConvertBursts(raw) ==
    IF raw = <<>> THEN <<>>
    ELSE LET b == Head(raw)
             rest == ConvertBursts(Tail(raw))
         IN  IF b.key = "cpu" THEN <<Cpu(b.n)>> \o rest
             ELSE IF b.key = "io" THEN <<Io(b.n)>> \o rest
             ELSE rest

\* load_processes_from_json (main.py 36-82) on the parsed file
load_processes_from_json(data, limit) ==
    LET n == IF limit = {} THEN Len(data)
             ELSE IF Get(limit, 0) > Len(data) THEN Len(data) ELSE Get(limit, 0)
    IN  [i \in 1..n |->
            NewProcess(Get(data[i].arrival_time, DefaultArrival),
                       Get(data[i].priority, DefaultPriority),
                       Get(data[i].quantum, DefaultQuantum),
                       ConvertBursts(data[i].bursts))]

\* main.py 170-219: the arguments are read and the file is loaded; without a
\* process the program exits with status 1
MainLoad ==
    /\ main.pc = "start"
    /\ LET loaded == load_processes_from_json(main.data, main.limit)
       IN  main' = IF loaded = <<>>
                   THEN [main EXCEPT !.pc = "exited", !.status = 1]
                   ELSE [main EXCEPT !.pc = "loaded", !.processes = loaded]
    /\ UNCHANGED <<algorithm, num_cpus, num_ios, clock, procs, ready_queue,
                   wait_queue, cpus, io_devices, finished, future_processes,
                   events, obs, driver, generator, fragment>>

\* for p in processes: sched.add_process(p)
RECURSIVE AddAll(_, _)
AddAll(s, ps) ==
    IF ps = <<>> THEN s ELSE AddAll(AddResult(s, Head(ps)), Tail(ps))

\* main.py 259-268: the scheduler receives every loaded process and the
\* visualizer is created (auto_step starts True, visualizer.py 328)
MainAdd ==
    /\ main.pc = "loaded"
    /\ Becomes(AddAll(Here, main.processes))
    /\ main' = [main EXCEPT !.pc = "visualize", !.auto_step = TRUE]
    /\ UNCHANGED <<algorithm, num_cpus, num_ios, clock, driver, generator, fragment>>

\* the events pygame.event.get() can return: closing the window, ESCAPE,
\* SPACE, a, and r (which, like every other key, does nothing)
UserEvents == {"QUIT", "K_ESCAPE", "K_SPACE", "K_a", "K_r"}

\* the events of one frame, in the order they are handled
FrameEvents == UNION {[1..n -> UserEvents] : n \in 0..MaxEvents}

\* self.scheduler.step() called within a frame: the step and the clock's tick
SchedulerStep(s) ==
    [StepResult([s EXCEPT !.events = <<>>, !.checks = <<>>, !.assigns = <<>>,
                          !.selects = <<>>])
        EXCEPT !.now = @ + 1]

\* the frame after a call of step(); last is the scheduler that call found
FrameStep(f) == [f EXCEPT !.last = f.scheduler, !.scheduler = SchedulerStep(@)]

\* the body of "for event in pygame.event.get()" (visualizer.py 331-345)
HandleEvent(f, event) ==
    IF event \in {"QUIT", "K_ESCAPE"} THEN [f EXCEPT !.running = FALSE]
    ELSE IF event = "K_SPACE" THEN FrameStep(f)
    ELSE IF event = "K_a" THEN [f EXCEPT !.auto_step = ~@]
    ELSE f

RECURSIVE HandleEvents(_, _, _)
HandleEvents(f, evs, i) ==
    IF i > Len(evs) THEN f ELSE HandleEvents(HandleEvent(f, evs[i]), evs, i + 1)

\* one iteration of "while running" (visualizer.py 330-400): every event of
\* the frame is handled, then the scheduler steps if auto_step is on
FrameResult(f, evs) ==
    LET g == HandleEvents(f, evs, 1)
    IN  IF g.auto_step THEN FrameStep(g) ELSE g

\* Visualizer.run (visualizer.py 325-404), one iteration of "while running";
\* once running is False the loop ends and run() calls pygame.quit() and
\* sys.exit(): the process exits with status 0 there, and control never
\* returns to main.py 271-302.  The events variable keeps the records of the
\* frame's last step().
VisualizerFrame ==
    /\ main.pc = "visualize"
    /\ \E evs \in FrameEvents :
          LET g == FrameResult([scheduler |-> Here, last |-> Here,
                                auto_step |-> main.auto_step, running |-> TRUE], evs)
          IN  /\ g.scheduler.now <= MaxClock
              /\ IF g.scheduler.now # clock
                 THEN /\ BecomesFrom(g.last, g.scheduler)
                      /\ clock' = g.scheduler.now
                 ELSE UNCHANGED <<clock, procs, ready_queue, wait_queue, cpus,
                                  io_devices, finished, future_processes,
                                  events, obs>>
              /\ main' = IF g.running
                         THEN [main EXCEPT !.auto_step = g.auto_step]
                         ELSE [main EXCEPT !.auto_step = g.auto_step, !.pc = "exited",
                                           !.status = 0]
    /\ UNCHANGED <<algorithm, num_cpus, num_ios, driver, generator, fragment>>

NextMain == MainLoad \/ MainAdd \/ VisualizerFrame

\* python main.py file_num=N [limit=L]: one CPU, one I/O device, Round Robin
\* (the defaults of main.py 178-180)
InitMain ==
    /\ Construct({"RR"}, {1}, {1})
    /\ main \in [pc : {"start"}, data : Files, limit : Limits,
                 processes : {<<>>}, auto_step : {TRUE}, status : {-1},
                 exported : {FALSE}]
    /\ generator = NotRunning
    /\ fragment = NotRunning

SpecMain == InitMain /\ [][NextMain]_vars

----------------------------------------------------------------------------
(* Loading a workload (main.py) *)

\* a burst the specification accepts: a cpu or an io burst of positive length
ValidBurst(b) == b.key \in {"cpu", "io"} /\ b.n >= 1

\* a record the specification accepts: some bursts, every one of them valid
ValidRecord(r) == r.bursts # <<>> /\ \A i \in DOMAIN r.bursts : ValidBurst(r.bursts[i])

\* the records of the file the loader looks at
Considered ==
    LET n == IF main.limit = {} THEN Len(main.data)
             ELSE IF Get(main.limit, 0) > Len(main.data) THEN Len(main.data)
             ELSE Get(main.limit, 0)
    IN  SubSeq(main.data, 1, n)

\* the processes of the valid records
ValidProcesses == load_processes_from_json(SelectSeq(Considered, ValidRecord), {})

BurstsOf(ps) == [i \in DOMAIN ps |-> ps[i].bursts]

\* C23: an invalid record (no burst, a burst of zero or negative length, a
\* burst that is neither cpu nor io) is rejected at load: the loaded
\* processes, and the processes handed to the scheduler, are those of the
\* valid records of the file and no others
C23_InvalidRecordsRejected ==
    /\ main.pc \in {"loaded", "visualize"} => main.processes = ValidProcesses
    /\ main.pc = "visualize" => obs.assigned = BurstsOf(ValidProcesses)

\* the loader keeps every valid record, in file order
ValidRecordsLoaded ==
    main.pc \in {"loaded", "visualize"} =>
        \E keep \in SUBSET DOMAIN main.processes :
            /\ Cardinality(keep) = Len(ValidProcesses)
            /\ \A i \in DOMAIN ValidProcesses :
                  \E k \in keep : main.processes[k] = ValidProcesses[i]

\* C24: main, run with a workload that has a process, writes the event log
\* to ./timelines before it exits, and exits with status 0
C24_ExportBeforeExit ==
    (main.pc = "exited" /\ main.processes # <<>>) =>
        (main.status = 0 /\ main.exported)

\* main exits with status 0 after the visualizer and 1 without a process
ExitStatus ==
    main.pc = "exited" => main.status = (IF main.processes = <<>> THEN 1 ELSE 0)

----------------------------------------------------------------------------
(* Scheduler.processes() (scheduler.py 199-209) *)

\* the dictionary pid -> process built from the ready queue, the wait queue,
\* the finished list and the processes held by the CPUs and the I/O devices
processes ==
    LET all == Range(ready_queue) \cup Range(wait_queue) \cup Range(finished)
                 \cup {cpus[c] : c \in {x \in DOMAIN cpus : cpus[x] # None}}
                 \cup {io_devices[d] : d \in {x \in DOMAIN io_devices : io_devices[x] # None}}
    IN  [p \in all |-> procs[p]]

\* C25: processes() has one entry for every process handed to add_process,
\* those whose arrival_time is still in the future included
C25_ProcessesKnowsEveryProcess == DOMAIN processes = Pids

\* processes() has an entry for every process that has arrived, and no other
ProcessesKnowsArrived ==
    DOMAIN processes = {p \in Pids : p \notin Range(future_processes)}

----------------------------------------------------------------------------
(* gen_jobs/generate_jobs.py: generate_process.  A draw of random.gauss is *)
(* an integer of a small set (the value after int()), a draw of            *)
(* random.random() < adjusted_io_ratio is a boolean.                       *)

max_bursts == 6     \* the parameter max_bursts (20 by default)
MaxGauss == 3       \* largest draw of a burst length
MaxBudget == 8      \* largest draw of the CPU budget
MinBudget == 5      \* cpu_budget = max(5, ...)
MaxPid == 3         \* calls of generate_process in a row
MaxCalls == 2       \* largest n of generate_processes
MaxSpacing == 1     \* largest draw of the spacing of two arrivals

GaussDraws == -1..MaxGauss
BudgetDraws == {0, MinBudget, MinBudget + 1, MaxBudget}
ClassIds == {"B", "E"}
SpacingDraws == -1..MaxSpacing

Max(a, b) == IF a >= b THEN a ELSE b

\* generate_quantum: the quanta of a class
generate_quantum(class_id) ==
    IF class_id = "B" THEN {2, 3, 4}
    ELSE IF class_id = "C" THEN {3, 4, 5}
    ELSE IF class_id = "A" THEN {4, 5, 6}
    ELSE IF class_id = "D" THEN {5, 6, 7, 8}
    ELSE {4}

\* generate_io_burst: the duration is max(1, int(gauss))
generate_io_burst(draw) == FileBurst("io", Max(1, draw))

\* a variant that leaves the burst it drew as it is
TrimNever(cpu_burst, cpu_used, cpu_budget) == cpu_burst

\* "if cpu_used + cpu_burst > cpu_budget: cpu_burst = cpu_budget - cpu_used"
Trim(cpu_burst, cpu_used, cpu_budget) ==
    IF cpu_used + cpu_burst > cpu_budget THEN cpu_budget - cpu_used ELSE cpu_burst

\* the condition of the while loop, and of the I/O part of its body
Building(g) == g.cpu_used < g.cpu_budget /\ g.burst_count < max_bursts

\* generate_processes is modelled by listing (it is in its loop), left (the
\* calls of generate_process it has still to make), current_time and
\* processes, of whose records the model keeps pid and arrival_time; a call
\* of generate_process by another caller starts without them

\* a call of generate_process, by generate_processes (line 234) or by another
\* caller, with the module's pid as the previous calls left it
Called ==
    \/ generator.listing /\ generator.pc = "next"
    \/ ~generator.listing /\ generator.pc \in {"start", "returned", "listed"}
                          /\ generator.pid < MaxPid

\* generate_process up to the loop (generate_jobs.py 141-167)
GenerateStart ==
    /\ Called
    /\ \E class_id \in ClassIds, priority \in 1..2, budget \in BudgetDraws :
       \E quantum \in generate_quantum(class_id) :
          LET list == IF generator.listing THEN generator
                      ELSE [listing |-> FALSE, left |-> 0, current_time |-> 0,
                            processes |-> <<>>]
          IN  generator' = [pc |-> "loop", pid |-> generator.pid + 1,
                            class_id |-> class_id, priority |-> priority,
                            quantum |-> quantum, cpu_budget |-> Max(MinBudget, budget),
                            cpu_used |-> 0, burst_count |-> 0, bursts |-> <<>>,
                            trimmed |-> FALSE,
                            listing |-> list.listing, left |-> list.left,
                            current_time |-> list.current_time,
                            processes |-> list.processes]
    /\ UNCHANGED <<algorithm, num_cpus, num_ios, clock, procs, ready_queue,
                   wait_queue, cpus, io_devices, finished, future_processes,
                   events, obs, driver, main, fragment>>

\* one iteration of the while loop (generate_jobs.py 169-187)
GenerateLoop ==
    /\ generator.pc = "loop"
    /\ Building(generator)
    /\ \E draw \in GaussDraws, with_io \in BOOLEAN, io_draw \in GaussDraws :
          LET drawn == Max(1, draw)
              cpu_burst == Trim(drawn, generator.cpu_used, generator.cpu_budget)
              g1 == [generator EXCEPT !.bursts = Append(@, FileBurst("cpu", cpu_burst)),
                                      !.cpu_used = @ + cpu_burst,
                                      !.burst_count = @ + 1,
                                      !.trimmed = @ \/ cpu_burst # drawn]
          IN  generator' =
                  IF Building(g1)
                  THEN [g1 EXCEPT !.bursts = IF with_io
                                             THEN Append(@, generate_io_burst(io_draw))
                                             ELSE @,
                                  !.burst_count = @ + 1]
                  ELSE g1
    /\ UNCHANGED <<algorithm, num_cpus, num_ios, clock, procs, ready_queue,
                   wait_queue, cpus, io_devices, finished, future_processes,
                   events, obs, driver, main, fragment>>

\* the loop ends and the record is returned (generate_jobs.py 189-197)
GenerateReturn ==
    /\ generator.pc = "loop"
    /\ ~Building(generator)
    /\ generator' = [generator EXCEPT !.pc = "returned"]
    /\ UNCHANGED <<algorithm, num_cpus, num_ios, clock, procs, ready_queue,
                   wait_queue, cpus, io_devices, finished, future_processes,
                   events, obs, driver, main, fragment>>

\* processes.sort(key=arrival_time): a stable sort, as an insertion sort
RECURSIVE InsertByArrival(_, _)
InsertByArrival(sorted, r) ==
    IF sorted = <<>> THEN <<r>>
    ELSE IF sorted[Len(sorted)].arrival_time <= r.arrival_time THEN Append(sorted, r)
    ELSE Append(InsertByArrival(SubSeq(sorted, 1, Len(sorted) - 1), r),
                sorted[Len(sorted)])

RECURSIVE SortProcesses(_, _)
SortProcesses(seq, i) ==
    IF i = 0 THEN <<>> ELSE InsertByArrival(SortProcesses(seq, i - 1), seq[i])

\* generate_processes up to its loop (generate_jobs.py 201-228): the pid
\* counter is reset; with n = 0 the loop is empty and the empty list returned
GenerateProcesses ==
    /\ ~generator.listing
    /\ generator.pc \in {"start", "returned", "listed"}
    /\ \E n \in 0..MaxCalls :
          generator' = [pc |-> IF n = 0 THEN "listed" ELSE "next", pid |-> 0,
                        listing |-> n > 0, left |-> n, current_time |-> 0,
                        processes |-> <<>>]
    /\ UNCHANGED <<algorithm, num_cpus, num_ios, clock, procs, ready_queue,
                   wait_queue, cpus, io_devices, finished, future_processes,
                   events, obs, driver, main, fragment>>

\* the rest of an iteration of that loop (generate_jobs.py 236-240): the
\* arrival time is added, current_time advances by max(0, int(gauss)), the
\* record is appended; after the last iteration the list is sorted and
\* returned (243-245)
GenerateAppend ==
    /\ generator.listing
    /\ generator.pc = "returned"
    /\ \E spacing \in SpacingDraws :
          LET list == Append(generator.processes,
                             [pid |-> generator.pid,
                              arrival_time |-> generator.current_time])
              last == generator.left = 1
          IN  generator' =
                  [pc |-> IF last THEN "listed" ELSE "next", pid |-> generator.pid,
                   listing |-> ~last, left |-> generator.left - 1,
                   current_time |-> generator.current_time + Max(0, spacing),
                   processes |-> IF last THEN SortProcesses(list, Len(list)) ELSE list]
    /\ UNCHANGED <<algorithm, num_cpus, num_ios, clock, procs, ready_queue,
                   wait_queue, cpus, io_devices, finished, future_processes,
                   events, obs, driver, main, fragment>>

NextGenerate ==
    GenerateStart \/ GenerateLoop \/ GenerateReturn \/ GenerateProcesses \/ GenerateAppend

InitGenerate ==
    /\ Construct({"RR"}, {1}, {1})
    /\ main = NotRunning
    /\ generator = [pc |-> "start", pid |-> 0, listing |-> FALSE, left |-> 0,
                    current_time |-> 0, processes |-> <<>>]
    /\ fragment = NotRunning

SpecGenerate == InitGenerate /\ [][NextGenerate]_vars

----------------------------------------------------------------------------
(* The generated process *)

Returned == generator.pc = "returned"
CpuBursts(bursts) == {i \in DOMAIN bursts : bursts[i].key = "cpu"}
IoBursts(bursts) == {i \in DOMAIN bursts : bursts[i].key = "io"}

RECURSIVE SumCpu(_)
SumCpu(bursts) ==
    IF bursts = <<>> THEN 0
    ELSE (IF Head(bursts).key = "cpu" THEN Head(bursts).n ELSE 0) + SumCpu(Tail(bursts))

\* C26: in a generated process every CPU burst and every I/O duration is at
\* least 1, and the CPU bursts add up to cpu_used, which is at most cpu_budget
C26_BurstsPositiveWithinBudget ==
    Returned =>
        /\ \A i \in CpuBursts(generator.bursts) : generator.bursts[i].n >= 1
        /\ \A i \in IoBursts(generator.bursts) : generator.bursts[i].n >= 1
        /\ SumCpu(generator.bursts) = generator.cpu_used
        /\ generator.cpu_used <= generator.cpu_budget

\* a process whose last CPU burst was trimmed to the budget, with an I/O burst
C26_Witness ==
    /\ Returned
    /\ generator.trimmed
    /\ generator.cpu_used = generator.cpu_budget
    /\ IoBursts(generator.bursts) # {}

\* C27: the burst list has at most max_bursts entries, and with fewer entries
\* than that the CPU bursts add up to cpu_budget
C27_BudgetSpentUnlessFull ==
    Returned =>
        /\ Len(generator.bursts) <= max_bursts
        /\ Len(generator.bursts) < max_bursts =>
              SumCpu(generator.bursts) = generator.cpu_budget

\* the burst list has at most max_bursts entries
AtMostMaxBursts ==
    generator.pc \in {"loop", "returned"} =>
        /\ Len(generator.bursts) <= generator.burst_count
        /\ generator.burst_count <= max_bursts

\* C28: a generated burst list starts with a CPU burst and no two adjacent
\* bursts are of the same kind
C28_GeneratedAlternates ==
    Returned =>
        /\ generator.bursts # <<>> => generator.bursts[1].key = "cpu"
        /\ \A i \in 1..(Len(generator.bursts) - 1) :
              generator.bursts[i].key # generator.bursts[i + 1].key

\* a generated burst list starts with a CPU burst and has no two adjacent
\* I/O bursts
NoAdjacentIo ==
    Returned =>
        /\ generator.bursts # <<>> /\ generator.bursts[1].key = "cpu"
        /\ \A i \in 1..(Len(generator.bursts) - 1) :
              generator.bursts[i].key = "cpu" \/ generator.bursts[i + 1].key = "cpu"

----------------------------------------------------------------------------
(* schedulers/fcfs.py and schedulers/priority.py: stage 1 of a pass, which *)
(* moves jobs from the ready queue to the CPUs.  Both loops remove the job *)
(* they visit from the list they iterate over; a Python list iterator      *)
(* keeps an index, so the job after a removed one is not visited.          *)

MaxJobs == 3        \* number of jobs

Jobs == 1..MaxJobs
JobPriorities == 1..2

\* the sequences of distinct jobs of S, of length at most n
RECURSIVE Arrangements(_, _)
Arrangements(S, n) ==
    IF n = 0 THEN {<<>>}
    ELSE {<<>>} \cup UNION { {<<j>> \o rest : rest \in Arrangements(S \ {j}, n - 1)} : j \in S }

\* list.remove(x)
Remove(seq, x) == RemoveAt(seq, IndexOf(seq, x))

\* fcfs.py 14-33: "for job in FCFS_ReadyQueue", the iterator at index i
RECURSIVE FcfsLoop(_, _)
FcfsLoop(f, i) ==
    IF i >= Len(f.ReadyQueue) THEN f
    ELSE LET job == f.ReadyQueue[i + 1]
         IN  IF Len(f.Running) < f.Num_CPUs
             THEN FcfsLoop([f EXCEPT !.Running = Append(@, job),
                                     !.ReadyQueue = Remove(@, job)], i + 1)
             ELSE FcfsLoop([f EXCEPT !.ready_wait[job] = @ + 1], i + 1)

\* priority.py 36-62: the running jobs are compared with the job in turn; the
\* first one of a larger priority number is preempted to the waiting queue
PbPreempt(f, job) ==
    LET lower == {k \in DOMAIN f.Running : f.priority[f.Running[k]] > f.priority[job]}
    IN  IF lower = {}
        THEN [f EXCEPT !.ready_wait[job] = @ + Len(f.Running)]
        ELSE LET k == CHOOSE x \in lower : \A y \in lower : x <= y
                 PB_job == f.Running[k]
             IN  [f EXCEPT !.Running = Remove(Append(@, job), PB_job),
                           !.ReadyQueue = Remove(@, job),
                           !.WaitingQueue = Append(@, PB_job),
                           !.ready_wait[job] = @ + (k - 1)]

\* priority.py 21-62: "for job in PB_ReadyQueue", the iterator at index i
RECURSIVE PbLoop(_, _)
PbLoop(f, i) ==
    IF i >= Len(f.ReadyQueue) THEN f
    ELSE LET job == f.ReadyQueue[i + 1]
         IN  IF Len(f.Running) < f.Num_CPUs
             THEN PbLoop([f EXCEPT !.Running = Append(@, job),
                                   !.ReadyQueue = Remove(@, job)], i + 1)
             ELSE PbLoop(PbPreempt(f, job), i + 1)

\* stage 1 of a pass of the FCFS fragment (fcfs.py 8-33)
FcfsStage1 ==
    /\ fragment.pc = "pass"
    /\ fragment.sched = "FCFS"
    /\ fragment' = [FcfsLoop(fragment, 0) EXCEPT !.pc = "stage1",
                       !.before = [ReadyQueue |-> fragment.ReadyQueue,
                                   Running |-> fragment.Running]]
    /\ UNCHANGED <<algorithm, num_cpus, num_ios, clock, procs, ready_queue,
                   wait_queue, cpus, io_devices, finished, future_processes,
                   events, obs, driver, main, generator>>

\* stage 1 of a pass of the priority fragment (priority.py 15-62)
PbStage1 ==
    /\ fragment.pc = "pass"
    /\ fragment.sched = "PB"
    /\ fragment' = [PbLoop(fragment, 0) EXCEPT !.pc = "stage1",
                       !.before = [ReadyQueue |-> fragment.ReadyQueue,
                                   Running |-> fragment.Running]]
    /\ UNCHANGED <<algorithm, num_cpus, num_ios, clock, procs, ready_queue,
                   wait_queue, cpus, io_devices, finished, future_processes,
                   events, obs, driver, main, generator>>

NextFragment == FcfsStage1 \/ PbStage1

\* the start of a pass: some jobs are ready, in arrival order, and at most
\* Num_CPUs others are running
InitFragment ==
    /\ Construct({"RR"}, {1}, {1})
    /\ main = NotRunning
    /\ generator = NotRunning
    /\ \E sched \in {"FCFS", "PB"}, n \in 1..MaxCpus, priority \in [Jobs -> JobPriorities],
          ready \in Arrangements(Jobs, MaxJobs) :
       \E running \in Arrangements(Jobs \ Range(ready), n) :
          fragment = [pc |-> "pass", sched |-> sched, Num_CPUs |-> n,
                      priority |-> priority, ReadyQueue |-> ready,
                      Running |-> running, WaitingQueue |-> <<>>,
                      ready_wait |-> [j \in Jobs |-> 0],
                      before |-> [ReadyQueue |-> ready, Running |-> running]]

SpecFragment == InitFragment /\ [][NextFragment]_vars

----------------------------------------------------------------------------
(* Stage 1 of the fragments *)

AfterStage1(sched) == fragment.pc = "stage1" /\ fragment.sched = sched

\* the jobs stage 1 placed on a CPU
Placed == Range(fragment.Running) \ Range(fragment.before.Running)

\* C29: a pass of stage 1 of the FCFS fragment places jobs in ready-queue
\* order: no job is placed while a job ahead of it in the ready queue stays
\* in the ready queue
C29_FcfsPlacesInQueueOrder ==
    AfterStage1("FCFS") =>
        \A j \in Placed : \A k \in Range(fragment.ReadyQueue) :
            PositionIn(fragment.before.ReadyQueue, j)
                < PositionIn(fragment.before.ReadyQueue, k)

\* with one CPU the FCFS fragment places the head of the ready queue only
FcfsOneCpuPlacesHead ==
    (AfterStage1("FCFS") /\ fragment.Num_CPUs = 1) =>
        \A j \in Placed : j = fragment.before.ReadyQueue[1]

\* C30: after stage 1 of the priority fragment no job left in the ready
\* queue has a strictly lower priority number than a job that is running
C30_PbRunsHighestPriority ==
    AfterStage1("PB") =>
        \A k \in Range(fragment.ReadyQueue) : \A j \in Range(fragment.Running) :
            fragment.priority[k] >= fragment.priority[j]

\* stage 1 moves jobs, it neither loses nor duplicates one
Stage1KeepsJobs ==
    fragment.pc = "stage1" =>
        /\ Range(fragment.ReadyQueue) \cup Range(fragment.Running)
              \cup Range(fragment.WaitingQueue)
             = Range(fragment.before.ReadyQueue) \cup Range(fragment.before.Running)
        /\ Len(fragment.ReadyQueue) + Len(fragment.Running) + Len(fragment.WaitingQueue)
             = Len(fragment.before.ReadyQueue) + Len(fragment.before.Running)
        /\ Len(fragment.Running) <= fragment.Num_CPUs

----------------------------------------------------------------------------
(* schedulers/rr.py: one pass of the round-robin fragment, stages 1 to 4.  *)
(* The class of the jobs is not part of the repository: a job is its burst *)
(* list with a cursor (get_burst_type, get_burst_time, get_next_burst,     *)
(* decrement_burst_time) and the counter cpu_time, which starts at 0,      *)
(* grows by one with increment_cpu_time and returns to 0 with              *)
(* reset_cpu_time.                                                         *)

MaxSlice == 2       \* largest time_slice
MaxPasses == 12     \* number of passes

\* Job.get_burst_type(): "CPU", "IO", or "EXIT" past the last burst
get_burst_type(J) ==
    IF J.cursor > Len(J.bursts) THEN "EXIT"
    ELSE IF J.bursts[J.cursor].kind = "cpu" THEN "CPU" ELSE "IO"

\* Job.get_burst_time(): what is left of the current burst
get_burst_time(J) == IF J.cursor > Len(J.bursts) THEN 0 ELSE J.bursts[J.cursor].n

get_next_burst(J) == [J EXCEPT !.cursor = @ + 1]
decrement_burst_time(J) == [J EXCEPT !.bursts[J.cursor].n = @ - 1]
increment_cpu_time(J) == [J EXCEPT !.cpu_time = @ + 1]
reset_cpu_time(J) == [J EXCEPT !.cpu_time = 0]

NewJob(bursts) == [bursts |-> bursts, cursor |-> 1, cpu_time |-> 0]

\* a job leaves RR_Running for the list "to"
LeaveRunning(f, job, to) ==
    [f EXCEPT ![to] = Append(@, job), !.Running = Remove(@, job), !.streak[job] = 0]

\* rr.py 46: "if job.get_cpu_time() <= time_slice"
WithinSlice(J, time_slice) == J.cpu_time <= time_slice

\* rr.py 29-106: what stage 2 does with one running job
RrRun(f, job) ==
    LET J == f.jobs[job]
    IN  IF get_burst_type(J) = "IO" THEN LeaveRunning(f, job, "WaitingQueue")
        ELSE IF get_burst_type(J) = "EXIT" THEN LeaveRunning(f, job, "FinishedQueue")
        ELSE IF ~WithinSlice(J, f.time_slice)
        THEN LeaveRunning([f EXCEPT !.jobs[job] = reset_cpu_time(J)], job, "WaitingQueue")
        ELSE IF get_burst_time(J) = 0
        THEN LeaveRunning([f EXCEPT !.jobs[job] = reset_cpu_time(get_next_burst(J))],
                          job, "WaitingQueue")
        ELSE LET K == increment_cpu_time(decrement_burst_time(J))
                 g == [f EXCEPT !.jobs[job] = K, !.streak[job] = @ + 1,
                                !.longest[job] = Max(@, f.streak[job] + 1)]
             IN  IF get_burst_time(K) = 0
                 THEN LeaveRunning([g EXCEPT !.jobs[job] = reset_cpu_time(get_next_burst(K))],
                                   job, "WaitingQueue")
                 ELSE g

\* rr.py 13-24: "for job in RR_ReadyQueue", the iterator at index i
RECURSIVE RrStage1(_, _)
RrStage1(f, i) ==
    IF i >= Len(f.ReadyQueue) THEN f
    ELSE LET job == f.ReadyQueue[i + 1]
         IN  IF Len(f.Running) < f.Num_CPUs
             THEN RrStage1([f EXCEPT !.Running = Append(@, job),
                                     !.ReadyQueue = Remove(@, job)], i + 1)
             ELSE RrStage1([f EXCEPT !.ready_wait[job] = @ + 1], i + 1)

\* rr.py 29-106: "for job in RR_Running", the iterator at index i
RECURSIVE RrStage2(_, _)
RrStage2(f, i) ==
    IF i >= Len(f.Running) THEN f
    ELSE RrStage2(RrRun(f, f.Running[i + 1]), i + 1)

\* rr.py 111-133: "for job in RR_WaitingQueue", the iterator at index i
RECURSIVE RrStage3(_, _)
RrStage3(f, i) ==
    IF i >= Len(f.WaitingQueue) THEN f
    ELSE LET job == f.WaitingQueue[i + 1]
         IN  IF get_burst_type(f.jobs[job]) = "IO"
             THEN IF Len(f.IO_Queue) < f.ios
                  THEN RrStage3([f EXCEPT !.IO_Queue = Append(@, job),
                                          !.WaitingQueue = Remove(@, job)], i + 1)
                  ELSE RrStage3([f EXCEPT !.io_wait[job] = @ + 1], i + 1)
             ELSE RrStage3([f EXCEPT !.ReadyQueue = Append(@, job),
                                     !.WaitingQueue = Remove(@, job)], i + 1)

\* rr.py 138-168: "for job in RR_IO_Queue", the iterator at index i
RECURSIVE RrStage4(_, _)
RrStage4(f, i) ==
    IF i >= Len(f.IO_Queue) THEN f
    ELSE LET job == f.IO_Queue[i + 1]
             J == f.jobs[job]
             K == IF get_burst_time(J) = 0 THEN J ELSE decrement_burst_time(J)
         IN  IF get_burst_time(K) = 0
             THEN RrStage4([f EXCEPT !.jobs[job] = get_next_burst(K),
                                     !.ReadyQueue = Append(@, job),
                                     !.IO_Queue = Remove(@, job)], i + 1)
             ELSE RrStage4([f EXCEPT !.jobs[job] = K], i + 1)

\* one pass of the fragment (rr.py 7-168)
RrPassResult(f) == RrStage4(RrStage3(RrStage2(RrStage1(f, 0), 0), 0), 0)

RrPass ==
    /\ fragment.pc = "pass"
    /\ fragment.sched = "RR"
    /\ fragment.passes < MaxPasses
    /\ Len(fragment.FinishedQueue) < Len(fragment.jobs)
    /\ fragment' = [RrPassResult(fragment) EXCEPT !.passes = @ + 1]
    /\ UNCHANGED <<algorithm, num_cpus, num_ios, clock, procs, ready_queue,
                   wait_queue, cpus, io_devices, finished, future_processes,
                   events, obs, driver, main, generator>>

RrBursts ==
    { <<Cpu(1)>>, <<Cpu(MaxSlice + 2)>>, <<Cpu(MaxSlice), Io(1), Cpu(MaxSlice + 1)>>,
      <<Io(2), Cpu(1)>> }

\* the jobs are ready, in arrival order, before the first pass
InitRrFragment ==
    /\ Construct({"RR"}, {1}, {1})
    /\ main = NotRunning
    /\ generator = NotRunning
    /\ \E n \in 1..MaxJobs, ncpu \in 1..MaxCpus, slice \in 1..MaxSlice :
       \E bursts \in [1..n -> RrBursts] :
          fragment = [pc |-> "pass", sched |-> "RR", Num_CPUs |-> ncpu, ios |-> 1,
                      time_slice |-> slice, passes |-> 0,
                      jobs |-> [j \in 1..n |-> NewJob(bursts[j])],
                      ReadyQueue |-> [j \in 1..n |-> j], Running |-> <<>>,
                      WaitingQueue |-> <<>>, IO_Queue |-> <<>>, FinishedQueue |-> <<>>,
                      ready_wait |-> [j \in 1..n |-> 0], io_wait |-> [j \in 1..n |-> 0],
                      streak |-> [j \in 1..n |-> 0], longest |-> [j \in 1..n |-> 0]]

NextRrFragment == RrPass

SpecRrFragment == InitRrFragment /\ [][NextRrFragment]_vars

\* C31: a job that stays in RR_Running has its CPU burst decremented at most
\* time_slice times in a row before it is taken off the CPU
C31_AtMostSliceInARow ==
    \A j \in DOMAIN fragment.jobs : fragment.longest[j] <= fragment.time_slice

\* a job is decremented at most time_slice + 1 times in a row
AtMostSlicePlusOneInARow ==
    \A j \in DOMAIN fragment.jobs : fragment.longest[j] <= fragment.time_slice + 1

----------------------------------------------------------------------------
(* The order of the phases inside one step() *)

EventIndexes(type) == {i \in DOMAIN events : events[i].event_type = type}
UnitIndex(device) == device[2]

\* C32: in one step every CPU is ticked and every completed burst is routed
\* before a quantum or preemption rule is applied: with two or more CPUs a
\* process whose burst completed on CPU j and that goes on with a CPU burst is
\* in the ready queue when the rule is applied to a CPU i < j, and it is
\* enqueued before every process preempted in the same step
C32_TicksBeforeRules ==
    (num_cpus >= 2 /\ algorithm \in {"RR", "SRTF", "PriorityPreemptive"}) =>
        /\ \A e \in EventIndexes("cpu_to_ready") : \A k \in Checks :
              k.cid < UnitIndex(events[e].device) =>
                  events[e].process \in Range(k.ready)
        /\ \A e \in EventIndexes("cpu_to_ready") : \A q \in EventIndexes("preempted") :
              e < q

\* the CPUs are handled one after the other, each one ticked, checked and
\* routed before the next: the records of a step are in ascending CPU order
CpusHandledInTurn ==
    \A i, j \in DOMAIN events :
        (i < j /\ events[i].event_type \in {"preempted", "cpu_to_ready", "cpu_to_io"}
               /\ events[j].event_type \in {"preempted", "cpu_to_ready", "cpu_to_io"})
            => UnitIndex(events[i].device) <= UnitIndex(events[j].device)

----------------------------------------------------------------------------
(* The non-preemptive policies *)

NonPreemptive == {"FCFS", "SJF", "Priority"}

SpecNonPreemptive == InitWith(NonPreemptive, 1..MaxCpus, 1..MaxIos) /\ [][Next]_vars

\* the step about to be taken completes the CPU burst of p
CompletesCpuBurst(p) == CpuTickActs(procs[p]) /\ BurstCompletes(procs[p])

\* C33: under FCFS, SJF and Priority a process on a CPU is on that CPU after
\* every step that does not bring its current CPU burst to zero, and is not
\* put back into the ready queue
C33_NonPreemptiveKeepsCpu ==
    [][(algorithm \in NonPreemptive) =>
          (\A c \in DOMAIN cpus :
              (cpus[c] # None /\ ~CompletesCpuBurst(cpus[c])) =>
                  ((cpus'[c] = cpus[c])
                   /\ (cpus[c] \notin Range(ready_queue'))
                   /\ (\A i \in DOMAIN events' :
                          (events'[i].event_type = "preempted" =>
                              events'[i].process # cpus[c]))))]_vars

\* a step in which a process in the middle of a CPU burst was ticked and kept
\* its CPU while a process with a CPU burst that the policy ranks before it
\* was ready
C33_Witness ==
    /\ algorithm \in NonPreemptive
    /\ \E k \in Checks :
          /\ k.streak >= 1
          /\ CurrentIs(k.procs[k.process], "cpu")
          /\ k.after = k.process
          /\ cpus[k.cid] = k.process
          /\ CurrentIs(procs[k.process], "cpu")
          /\ \E q \in Range(k.ready) :
                /\ CurrentIs(k.procs[q], "cpu")
                /\ PolicyKey(algorithm, k.procs[q])
                      < PolicyKey(algorithm, k.procs[k.process])

(***************************************************************************)
(* The sorted ready queue and the scan that selects from it                *)
(***************************************************************************)

SpecScan == InitWith(ScanPolicies, 1..MaxCpus, 1..MaxIos) /\ [][Next]_vars

\* rq is in ascending order of the policy's key, read from the fields pr
SortedBy(alg, pr, rq) ==
    \A i, j \in DOMAIN rq :
        i < j => PolicyKey(alg, pr[rq[i]]) <= PolicyKey(alg, pr[rq[j]])

Selects == {obs.selects[i] : i \in DOMAIN obs.selects}

\* C34: under SJF, SRTF, Priority and PriorityPreemptive the ready queue is
\* kept in ascending order of the policy's key, so every selection, which
\* scans the queue for the first process of least key, takes the head
C34_SortedSoHeadSelected ==
    algorithm \in ScanPolicies =>
        /\ SortedBy(algorithm, procs, ready_queue)
        /\ \A k \in Selects :
              /\ SortedBy(algorithm, k.procs, k.ready)
              /\ k.index = 1

\* a selection from a queue of processes of different keys, in a step where a
\* process came back from a CPU or an I/O device
C34_Witness ==
    /\ algorithm \in ScanPolicies
    /\ \E k \in Selects :
          /\ Len(k.ready) >= 2
          /\ PolicyKey(algorithm, k.procs[k.ready[1]])
                < PolicyKey(algorithm, k.procs[k.ready[Len(k.ready)]])
    /\ \E i \in DOMAIN events :
          events[i].event_type \in {"io_to_ready", "preempted", "cpu_to_ready"}

(***************************************************************************)
(* Where a process is and the kind of its current burst                    *)
(***************************************************************************)

OnCpuSide(p) == p \in Range(ready_queue) \/ (\E c \in DOMAIN cpus : cpus[c] = p)
OnIoSide(p) == p \in Range(wait_queue) \/ (\E d \in DOMAIN io_devices : io_devices[d] = p)

\* C35: a process is in the ready queue or on a CPU only while its current
\* burst is a CPU burst, and in the wait queue or on an I/O device only while
\* its current burst is an I/O burst, whatever the order of its bursts
C35_PlaceMatchesBurst ==
    \A p \in DOMAIN procs :
        /\ OnCpuSide(p) => CurrentIs(procs[p], "cpu")
        /\ OnIoSide(p) => CurrentIs(procs[p], "io")

\* the half of it the routing of a completed CPU burst keeps: only a process
\* whose current burst is I/O is in the wait queue or on an I/O device
IoSideMatchesBurst ==
    \A p \in DOMAIN procs : OnIoSide(p) => CurrentIs(procs[p], "io")

(***************************************************************************)
(* Work conservation                                                       *)
(***************************************************************************)

WorkConserving ==
    /\ ready_queue # <<>> => \A c \in DOMAIN cpus : cpus[c] # None
    /\ wait_queue # <<>> => \A d \in DOMAIN io_devices : io_devices[d] # None

\* C36: at the end of every step() no CPU is idle while the ready queue is
\* non-empty and no I/O device is idle while the wait queue is non-empty
C36_WorkConservingAfterStep ==
    [][(clock' = clock + 1) => WorkConserving']_vars

\* a step that dispatched to a CPU and left a process queued behind busy CPUs
C36_Witness ==
    /\ clock > 0
    /\ ready_queue # <<>>
    /\ \A c \in DOMAIN cpus : cpus[c] # None
    /\ EventsOf("dispatch_cpu") # {}

\* a step that left a process in the wait queue behind busy I/O devices
WaitsBehindBusyDevices ==
    /\ clock > 0
    /\ wait_queue # <<>>
    /\ \A d \in DOMAIN io_devices : io_devices[d] # None

(***************************************************************************)
(* One unit of service per process per tick                                *)
(***************************************************************************)

\* the units of service a process still needs: the sum of its bursts, CPU and
\* I/O (a completed burst is left at zero)
RECURSIVE SumFrom(_, _)
SumFrom(bursts, i) ==
    IF i > Len(bursts) THEN 0 ELSE bursts[i].n + SumFrom(bursts, i + 1)

ServiceLeft(P) == SumFrom(P.bursts, 1)

\* C37: in one step() no process receives more than one unit of service:
\* its bursts lose at most one unit, also when it changes unit within the tick
C37_OneUnitPerTick ==
    [][\A p \in DOMAIN procs :
          ServiceLeft(procs'[p]) >= ServiceLeft(procs[p]) - 1]_vars

\* a step in which a process completed a CPU burst and was dispatched to an
\* I/O device
C37_Witness ==
    \E p \in DOMAIN procs : Recorded("cpu_to_io", p) /\ Recorded("dispatch_io", p)

\* a step in which a process was preempted and placed on a CPU again, and one
\* in which a process came back from I/O and was dispatched to a CPU
PreemptedAndPlacedAgain ==
    \E p \in DOMAIN procs : Recorded("preempted", p) /\ Recorded("dispatch_cpu", p)

IoDoneAndDispatched ==
    \E p \in DOMAIN procs : Recorded("io_to_ready", p) /\ Recorded("dispatch_cpu", p)

(***************************************************************************)
(* step() on a scheduler with nothing left to do                           *)
(***************************************************************************)

\* C38: step() on a quiescent scheduler (no future arrival, empty queues,
\* idle units) advances the clock by one and changes nothing else: it records
\* no event and leaves finished, the queues, the units and the processes
C38_QuiescentStepOnlyTicks ==
    [][(Quiescent /\ clock' # clock) =>
          (/\ clock' = clock + 1
           /\ events' = <<>>
           /\ UNCHANGED <<procs, ready_queue, wait_queue, cpus, io_devices,
                          finished, future_processes>>)]_vars

\* a scheduler that finished its processes and was stepped once more
C38_Witness ==
    /\ Quiescent
    /\ obs.settled
    /\ finished # <<>>
    /\ AllFinished

(***************************************************************************)
(* Placements on a CPU and the dispatch_cpu events                         *)
(***************************************************************************)

RecordedDispatch(a) ==
    \E j \in EventsOf("dispatch_cpu") :
        events[j].process = a.process /\ events[j].device = CpuName(a.id)

\* C39: every placement of a process on a CPU is recorded, in the same tick,
\* by a dispatch_cpu event that names the process and the CPU
C39_EveryPlacementRecorded ==
    \A i \in CpuAssigns : RecordedDispatch(obs.assigns[i])

\* the placements made by the dispatch at the end of step() are recorded
DispatchPlacementsRecorded ==
    \A i \in CpuAssigns :
        obs.assigns[i].via = "dispatch" => RecordedDispatch(obs.assigns[i])

====
